---- MODULE Spec2Model ----
(***************************************************************************)
(* Cross-layer correlator (src/src/correlation/correlator.py): the         *)
(* time-windowed join of kernel events onto application requests and the   *)
(* rule-based discrepancy classifier; and the statistical analyzer         *)
(* (src/cross-layer/src/correlation/analyzer.py): the aggregated           *)
(* statistics, the recommendations and the exported report.                *)
(*                                                                         *)
(* Units.  Python floats are modelled by scaled integers:                  *)
(*   start_time / end_time (seconds)  in half-nanoseconds (2 ticks = 1 ns) *)
(*   latency_ms (milliseconds)        in hundredths of a millisecond       *)
(*   time_window_ms                   in whole milliseconds                *)
(* Integers stay below 2^31, where the float arithmetic of the code is     *)
(* exact.  None is the empty tuple <<>> and a present value v is <<v>>.    *)
(* A reason string is the sequence of its tokens (words, numbers and       *)
(* punctuation), so that a substring test is a test for a run of tokens.   *)
(* A float of the analyzer is the exact fraction <<n, d>> in lowest terms.  *)
(***************************************************************************)
EXTENDS Integers, Sequences, FiniteSets, TLC

VARIABLES
    time_window_ns,   \* self.time_window_ns
    correlations,     \* self.correlations
    app_metrics,      \* the application metrics handed to correlate
    ebpf_events,      \* the kernel events handed to correlate
    loaded,           \* the two input streams have been loaded
    returned,         \* the list the last correlate call returned
    calls,            \* number of correlate calls that returned so far
    raised,           \* the exception a correlate call raised, None if none
    analyzer_metrics, \* PerformanceAnalyzer.metrics
    analyzer_stats,   \* PerformanceAnalyzer.stats
    passes,           \* number of analysis passes made so far
    last_call,        \* the mode and the data of the last analysis pass
    recommendations,  \* the list generate_recommendations returned
    report,           \* the report export_report wrote
    reimported,       \* the statistics recomputed from the report's records
    comparison,       \* the dict compare_with_baseline returned
    fault,            \* the exception an analyzer call raised, None if none
    held,             \* the lists the correlate calls returned, as they are now
    history,          \* per correlate call: its requests and the list as returned
    exported,         \* get_blind_spots and the dict export_correlations wrote
    analyzed,         \* the statistics an analyzer computes from that dict
    test_pc,          \* where run_test of the integration test stands
    poll_pc,          \* where the poll thread of eBPFMonitor stands
    monitor_running,  \* eBPFMonitor.running
    monitor_events,   \* eBPFMonitor.events, an event held as its number
    perf_buffer,      \* the events the kernel has put in the perf buffer
    emitted,          \* number of events the probes have emitted so far
    captured,         \* the len(self.events) that stop() printed
    combined_file,    \* the 'ebpf_events' of test_output.json
    ebpf_file,        \* the list written to ebpf_events.json
    client_pc,        \* where LoadGenerator.run of client.py stands
    client_running,   \* LoadGenerator.running
    num_requests,     \* the num_requests argument of run
    last_request_id,  \* the local request_id of run
    client_metrics,   \* LoadGenerator.metrics
    signalled         \* the metrics recorded when the stop signal came

correlator_vars == <<time_window_ns, correlations, app_metrics, ebpf_events,
                     loaded, returned, calls, raised>>

analyzer_vars == <<analyzer_metrics, analyzer_stats, passes, last_call,
                   recommendations, report,
                   reimported, comparison, fault>>

session_vars == <<held, history, exported, analyzed>>

capture_vars == <<test_pc, poll_pc, monitor_running, monitor_events, perf_buffer,
                  emitted, captured, combined_file, ebpf_file>>

client_vars == <<client_pc, client_running, num_requests, last_request_id,
                 client_metrics, signalled>>

vars == <<correlator_vars, analyzer_vars, session_vars, capture_vars, client_vars>>

\* what each program leaves alone
outside_correlator == <<analyzer_vars, capture_vars, client_vars>>
outside_analyzer == <<correlator_vars, session_vars, capture_vars, client_vars>>
outside_capture == <<correlator_vars, session_vars, analyzer_vars, client_vars>>
outside_client == <<correlator_vars, session_vars, analyzer_vars, capture_vars>>

----------------------------------------------------------------------------
(* Bounds of the model *)

MaxRequests == 2      \* longest request list of the join family
MaxEvents == 2        \* longest kernel-event list of the join family
MaxCalls == 2         \* correlate calls on one correlator
MaxPasses == 2        \* analysis passes on one analyzer
MaxKernelEvents == 3  \* events the probes emit during one integration test
MaxAsked == 3         \* largest num_requests given to LoadGenerator.run
MaxIssued == 5        \* requests after which a run is followed no further

(* Program constants *)

NsPerMs == 1000000            \* time_window_ms * 1_000_000
HttpOk == 200                 \* status_code == 200
LowLatencyMs == 10            \* latency_ms < 10
HighEventCount == 50          \* len(matching_events) > 50
AsymmetricBytes == 1000       \* bytes_sent > 1000, bytes_recv > 1000
CloseLatencyMs == 20          \* latency_ms < 20
CloseLimit == 2               \* close_events > 2
ReuseEventCount == 20         \* len(matching_events) > 20
SyscallLimit == 10            \* send_count > 10 or recv_count > 10
HighLatencyThresholdMs == 100       \* high_latency_threshold_ms: float = 100.0
LowThroughputThresholdMbps == 1     \* low_throughput_threshold_mbps: float = 1.0
BitsPerMegabit == 1000000           \* statistics.mean(throughputs) / 1_000_000
BytesPerMegabyte == 1000000         \* (sent + received) / 1_000_000
P95LimitMs == 50                    \* latency_p95 > 50
MaxLimitMs == 1000                  \* latency_max > 1000
ErrorRateLimitPct == 5              \* error_rate_pct > 5
BytesPerEventLimit == 512           \* bytes_per_event_avg < 512
EventsPerRequestLimit == 100        \* kernel_events_avg > 100
BlindSpotsLimitPct == 10            \* blind_spots_pct > 10
ConnectionSetupLimitMs == 50        \* connection_duration_avg_ms > 50

----------------------------------------------------------------------------
(* Python values *)

None == <<>>
Some(v) == <<v>>

\* dict.get(key, default) on a dict modelled as a function
Get(d, key, default) == IF key \in DOMAIN d THEN d[key] ELSE default

\* int(x) of a float x = n / d: truncation toward zero
IntTrunc(n, d) == IF n >= 0 THEN n \div d ELSE -((-n) \div d)

\* int(t * 1_000_000_000) of a time t held in half-nanoseconds
ToNs(t) == IntTrunc(t, 2)

\* f"{x:.2f}" of a latency held in hundredths of a millisecond
Fmt2f(c) ==
    ToString(c \div 100) \o "." \o ToString((c % 100) \div 10) \o ToString(c % 10)

\* latency_ms < ms, the latency held in hundredths of a millisecond
LatencyBelow(latency_ms, ms) == latency_ms < ms * 100

\* len([e for e in events if e.get('event_type') == event_type])
CountType(events, event_type) ==
    Cardinality({i \in 1..Len(events) : events[i].event_type = event_type})

RECURSIVE SumBytesFrom(_, _, _)
\* sum of event['bytes'] over the events of one type from position i on
SumBytesFrom(events, event_type, i) ==
    IF i > Len(events) THEN 0
    ELSE (IF events[i].event_type = event_type THEN events[i].bytes ELSE 0)
         + SumBytesFrom(events, event_type, i + 1)

\* sum of event['bytes'] over the events of one type, in list order
SumBytes(events, event_type) == SumBytesFrom(events, event_type, 1)

----------------------------------------------------------------------------
(* CrossLayerCorrelator.__init__ *)

TimeWindowNs(time_window_ms) == time_window_ms * NsPerMs

----------------------------------------------------------------------------
(* CrossLayerCorrelator._find_matching_events *)

InWindowStrict(ts, window_start, window_end) ==
    window_start < ts /\ ts < window_end

InWindow(ts, window_start, window_end) ==
    window_start <= ts /\ ts <= window_end

\* the matched events collected newest position first
FindMatchingEventsReversed(events, start_ns, end_ns, window_ns) ==
    LET window_start == start_ns - window_ns
        window_end == end_ns + window_ns
        matched == SelectSeq(events,
                      LAMBDA event : InWindow(event.timestamp_ns, window_start, window_end))
    IN  [j \in 1..Len(matched) |-> matched[Len(matched) + 1 - j]]

FindMatchingEvents(events, start_ns, end_ns, window_ns) ==
    LET window_start == start_ns - window_ns
        window_end == end_ns + window_ns
    IN  SelectSeq(events,
                  LAMBDA event : InWindow(event.timestamp_ns, window_start, window_end))

----------------------------------------------------------------------------
(* CrossLayerCorrelator._analyze_kernel_events *)

\* the statistics with the bytes of every matched event counted as sent
AnalyzeKernelEventsAnyType(events) ==
    [ bytes_sent  |-> SumBytes(events, "send") + SumBytes(events, "retransmit"),
      bytes_recv  |-> SumBytes(events, "recv"),
      connections |-> CountType(events, "connect"),
      closes      |-> CountType(events, "close"),
      event_types |-> [t \in {events[i].event_type : i \in 1..Len(events)}
                          |-> CountType(events, t)] ]

AnalyzeKernelEvents(events) ==
    [ bytes_sent  |-> SumBytes(events, "send"),
      bytes_recv  |-> SumBytes(events, "recv"),
      connections |-> CountType(events, "connect"),
      closes      |-> CountType(events, "close"),
      event_types |-> [t \in {events[i].event_type : i \in 1..Len(events)}
                          |-> CountType(events, t)] ]

----------------------------------------------------------------------------
(* The discrepancy_reason strings of _detect_discrepancy, as token runs *)

ReasonRetransmissions(n) ==
    <<"App", "reports", "success", "but", "kernel", "detected", ToString(n),
      "TCP", "retransmissions", "(", "hidden", "network", "issues", ")">>

ReasonConnectionAttempts(connect_events) ==
    <<"App", "reports", "success", "but", "kernel", "shows",
      ToString(connect_events), "connection", "attempts",
      "(", "reliability", "issues", "masked", ")">>

ReasonHiddenInefficiency(latency_ms, n) ==
    <<"App", "reports", "fast", "success", "(", Fmt2f(latency_ms), "ms", ")",
      "but", "kernel", "shows", ToString(n), "events",
      "(", "hidden", "inefficiency", ")">>

ReasonNoResponse ==
    <<"App", "reports", "success", "but", "kernel", "shows", "data", "sent",
      "with", "no", "response", "received", "(", "potential", "packet", "loss", ")">>

ReasonNoPriorSend ==
    <<"App", "reports", "success", "but", "kernel", "shows", "data", "received",
      "without", "prior", "send", "(", "protocol", "anomaly", ")">>

ReasonCloseAttempts(latency_ms, close_events) ==
    <<"App", "reports", "low", "latency", "(", Fmt2f(latency_ms), "ms", ")",
      "but", "kernel", "shows", ToString(close_events), "close", "attempts",
      "(", "hidden", "connection", "issues", ")">>

ReasonConnectionReuse ==
    <<"App", "reused", "connection", "(", "appears", "fast", ")", "but", "kernel",
      "shows", "excessive", "events", "(", "hidden", "connection", "issues", ")">>

ReasonExcessiveSyscalls(send_count, recv_count) ==
    <<"App", "reports", "success", "but", "kernel", "shows", ToString(send_count),
      "sends", "and", ToString(recv_count), "receives",
      "(", "excessive", "system", "calls", "indicate", "inefficiency", ")">>

----------------------------------------------------------------------------
(* The conditions of _detect_discrepancy *)

\* if len(matching_events) == 0: return False, None
ZeroEventsFlagged == <<TRUE, Some(<<"No", "kernel", "events", "matched">>)>>

ZeroEventsVerdict == <<FALSE, None>>

\* app_metric.get('result') == 'success' or app_metric.get('status_code') == 200
AppSuccessAnyStatus(app_metric) ==
    \/ Get(app_metric, "result", None) = Some("success")
    \/ Get(app_metric, "status_code", None) # None

AppSuccess(app_metric) ==
    \/ Get(app_metric, "result", None) = Some("success")
    \/ Get(app_metric, "status_code", None) = Some(HttpOk)

\* retransmit_events = [e for e in matching_events if e.get('event_type') == 'retransmit']
RetransmitEvents(matching_events) ==
    SelectSeq(matching_events, LAMBDA e : e.event_type = "retransmit")

\* if len(retransmit_events) > 0
HasRetransmissionsTwo(n) == n > 1

HasRetransmissions(n) == n > 0

\* if connect_events > 1
MultipleConnectsAny(connect_events) == connect_events > 0

MultipleConnects(connect_events) == connect_events > 1

\* if app_metric['latency_ms'] < 10 and len(matching_events) > 50
HiddenInefficiencyAtLeast(latency_ms, n) ==
    LatencyBelow(latency_ms, LowLatencyMs) /\ n >= HighEventCount

HiddenInefficiency(latency_ms, n) ==
    LatencyBelow(latency_ms, LowLatencyMs) /\ n > HighEventCount

\* if bytes_sent > 1000 and bytes_recv == 0
SentWithoutResponseSwapped(bytes_sent, bytes_recv) ==
    bytes_recv > AsymmetricBytes /\ bytes_sent = 0

SentWithoutResponse(bytes_sent, bytes_recv) ==
    bytes_sent > AsymmetricBytes /\ bytes_recv = 0

\* if bytes_recv > 1000 and bytes_sent == 0
ReceivedWithoutSend(bytes_sent, bytes_recv) ==
    bytes_recv > AsymmetricBytes /\ bytes_sent = 0

\* if app_metric['latency_ms'] < 20: ... if close_events > 2
CloseChurnAnyLatency(latency_ms, close_events) == close_events > CloseLimit

CloseChurnLate(latency_ms, close_events) ==
    LatencyBelow(latency_ms, CloseLatencyMs) /\ close_events > CloseLimit + 1

CloseChurn(latency_ms, close_events) ==
    LatencyBelow(latency_ms, CloseLatencyMs) /\ close_events > CloseLimit

\* if kernel_stats['connections'] == 0 and (bytes_sent > 0 or bytes_recv > 0):
\*     if len(matching_events) > 20
ConnectionReuseLate(connections, bytes_sent, bytes_recv, n) ==
    /\ connections = 0
    /\ (bytes_sent > 0 \/ bytes_recv > 0)
    /\ n > ReuseEventCount + 1

ConnectionReuse(connections, bytes_sent, bytes_recv, n) ==
    /\ connections = 0
    /\ (bytes_sent > 0 \/ bytes_recv > 0)
    /\ n > ReuseEventCount

\* if send_count > 10 or recv_count > 10
ExcessiveSyscallsSendOnly(send_count, recv_count) == send_count > SyscallLimit

ExcessiveSyscalls(send_count, recv_count) ==
    send_count > SyscallLimit \/ recv_count > SyscallLimit

----------------------------------------------------------------------------
(* CrossLayerCorrelator._detect_discrepancy: returns <<flag, reason>> *)

DetectDiscrepancyConnectFirst(app_metric, kernel_stats, matching_events) ==
    LET n == Len(matching_events)
        retransmit_events == RetransmitEvents(matching_events)
        connect_events == Get(kernel_stats.event_types, "connect", 0)
        bytes_sent == kernel_stats.bytes_sent
        bytes_recv == kernel_stats.bytes_recv
        close_events == Get(kernel_stats.event_types, "close", 0)
        send_count == Get(kernel_stats.event_types, "send", 0)
        recv_count == Get(kernel_stats.event_types, "recv", 0)
    IN  IF n = 0 THEN ZeroEventsVerdict
        ELSE IF ~AppSuccess(app_metric) THEN <<FALSE, None>>
        ELSE IF MultipleConnects(connect_events)
            THEN <<TRUE, Some(ReasonConnectionAttempts(connect_events))>>
        ELSE IF HasRetransmissions(Len(retransmit_events))
            THEN <<TRUE, Some(ReasonRetransmissions(Len(retransmit_events)))>>
        ELSE IF HiddenInefficiency(app_metric.latency_ms, n)
            THEN <<TRUE, Some(ReasonHiddenInefficiency(app_metric.latency_ms, n))>>
        ELSE IF SentWithoutResponse(bytes_sent, bytes_recv)
            THEN <<TRUE, Some(ReasonNoResponse)>>
        ELSE IF ReceivedWithoutSend(bytes_sent, bytes_recv)
            THEN <<TRUE, Some(ReasonNoPriorSend)>>
        ELSE IF CloseChurn(app_metric.latency_ms, close_events)
            THEN <<TRUE, Some(ReasonCloseAttempts(app_metric.latency_ms, close_events))>>
        ELSE IF ConnectionReuse(kernel_stats.connections, bytes_sent, bytes_recv, n)
            THEN <<TRUE, Some(ReasonConnectionReuse)>>
        ELSE IF ExcessiveSyscalls(send_count, recv_count)
            THEN <<TRUE, Some(ReasonExcessiveSyscalls(send_count, recv_count))>>
        ELSE <<FALSE, None>>

DetectDiscrepancy(app_metric, kernel_stats, matching_events) ==
    LET n == Len(matching_events)
        retransmit_events == RetransmitEvents(matching_events)
        connect_events == Get(kernel_stats.event_types, "connect", 0)
        bytes_sent == kernel_stats.bytes_sent
        bytes_recv == kernel_stats.bytes_recv
        close_events == Get(kernel_stats.event_types, "close", 0)
        send_count == Get(kernel_stats.event_types, "send", 0)
        recv_count == Get(kernel_stats.event_types, "recv", 0)
    IN  IF n = 0 THEN ZeroEventsVerdict
        ELSE IF ~AppSuccess(app_metric) THEN <<FALSE, None>>
        ELSE IF HasRetransmissions(Len(retransmit_events))
            THEN <<TRUE, Some(ReasonRetransmissions(Len(retransmit_events)))>>
        ELSE IF MultipleConnects(connect_events)
            THEN <<TRUE, Some(ReasonConnectionAttempts(connect_events))>>
        ELSE IF HiddenInefficiency(app_metric.latency_ms, n)
            THEN <<TRUE, Some(ReasonHiddenInefficiency(app_metric.latency_ms, n))>>
        ELSE IF SentWithoutResponse(bytes_sent, bytes_recv)
            THEN <<TRUE, Some(ReasonNoResponse)>>
        ELSE IF ReceivedWithoutSend(bytes_sent, bytes_recv)
            THEN <<TRUE, Some(ReasonNoPriorSend)>>
        ELSE IF CloseChurn(app_metric.latency_ms, close_events)
            THEN <<TRUE, Some(ReasonCloseAttempts(app_metric.latency_ms, close_events))>>
        ELSE IF ConnectionReuse(kernel_stats.connections, bytes_sent, bytes_recv, n)
            THEN <<TRUE, Some(ReasonConnectionReuse)>>
        ELSE IF ExcessiveSyscalls(send_count, recv_count)
            THEN <<TRUE, Some(ReasonExcessiveSyscalls(send_count, recv_count))>>
        ELSE <<FALSE, None>>

----------------------------------------------------------------------------
(* CrossLayerCorrelator.correlate *)

\* self.correlations = []
KeepCorrelations(old) == old

ResetCorrelations(old) == <<>>

\* the body of the loop over app_metrics up to the CorrelatedEvent
CorrelateOne(metric, events, window_ns) ==
    LET start_ns == ToNs(metric.start_time)
        end_ns == ToNs(metric.end_time)
        matching_events == FindMatchingEvents(events, start_ns, end_ns, window_ns)
        kernel_stats == AnalyzeKernelEvents(matching_events)
        verdict == DetectDiscrepancy(metric, kernel_stats, matching_events)
    IN  [ request_id               |-> metric.request_id,
          app_latency_ms           |-> metric.latency_ms,
          app_status_code          |-> Get(metric, "status_code", None),
          kernel_events            |-> matching_events,
          kernel_total_bytes_sent  |-> kernel_stats.bytes_sent,
          kernel_total_bytes_recv  |-> kernel_stats.bytes_recv,
          kernel_connection_events |-> kernel_stats.connections,
          kernel_event_count       |-> Len(matching_events),
          discrepancy_detected     |-> verdict[1],
          discrepancy_reason       |-> verdict[2] ]

\* self.correlations.append(correlated)
AppendIfMatched(list, correlated) ==
    IF correlated.kernel_event_count = 0 THEN list ELSE Append(list, correlated)

AppendCorrelated(list, correlated) == Append(list, correlated)

RECURSIVE CorrelateLoop(_, _, _, _)
\* for metric in app_metrics: ...
CorrelateLoop(list, metrics, events, window_ns) ==
    IF metrics = <<>> THEN list
    ELSE CorrelateLoop(AppendCorrelated(list, CorrelateOne(Head(metrics), events, window_ns)),
                       Tail(metrics), events, window_ns)

\* pids_in_events = set(e['pid'] for e in ebpf_events): KeyError on an event
\* without a pid, before the loop over app_metrics starts
RaisesAtPids(events) ==
    \E i \in 1..Len(events) : "pid" \notin DOMAIN events[i]

\* the subscripts on the matched events in _analyze_kernel_events:
\* event['event_type'] for every matched event, event['bytes'] for a matched
\* send or recv
RaisesInKernelStats(matching_events) ==
    \E i \in 1..Len(matching_events) :
        \/ "event_type" \notin DOMAIN matching_events[i]
        \/ /\ matching_events[i].event_type \in {"send", "recv"}
           /\ "bytes" \notin DOMAIN matching_events[i]

\* KeyError raised by the loop body for one metric: metric['start_time'],
\* metric['end_time'], event['timestamp_ns'] for every event of the stream,
\* the subscripts of _analyze_kernel_events, metric['request_id'] and
\* metric['latency_ms']
RaisesForMetric(metric, events, window_ns) ==
    \/ "start_time" \notin DOMAIN metric
    \/ "end_time" \notin DOMAIN metric
    \/ \E i \in 1..Len(events) : "timestamp_ns" \notin DOMAIN events[i]
    \/ RaisesInKernelStats(FindMatchingEvents(events, ToNs(metric.start_time),
                                              ToNs(metric.end_time), window_ns))
    \/ "request_id" \notin DOMAIN metric
    \/ "latency_ms" \notin DOMAIN metric

\* where correlate raises: None if it returns, Some(0) before the loop,
\* Some(k) in the loop body of the k-th metric
KeyErrorAt(metrics, events, window_ns) ==
    LET raising == {k \in 1..Len(metrics) :
                       RaisesForMetric(metrics[k], events, window_ns)}
    IN  IF RaisesAtPids(events) THEN Some(0)
        ELSE IF raising = {} THEN None
        ELSE Some(CHOOSE k \in raising : \A j \in raising : k <= j)

\* self.correlations when correlate raises at position k: the new list and
\* the CorrelatedEvents appended before the KeyError
CorrelationsAtRaise(old, metrics, events, window_ns, k) ==
    CorrelateLoop(ResetCorrelations(old), SubSeq(metrics, 1, k - 1), events,
                  window_ns)

\* self.correlations = [] binds a new list and the appends of the call go to
\* it: the list bound before, which an earlier call returned, keeps its
\* elements
PreviousListCleared(old) == <<>>

PreviousList(old) == old

----------------------------------------------------------------------------
(* CrossLayerCorrelator.get_blind_spots, export_correlations and            *)
(* _categorize_blind_spots.  A dict of counts is the sequence of its        *)
(* <<key, count>> items in insertion order.  json.dump followed by          *)
(* json.load gives back the dicts, lists, numbers, strings and None of the  *)
(* exported data as they were.                                              *)

\* [c for c in self.correlations if c.discrepancy_detected]
GetBlindSpots(list) == SelectSeq(list, LAMBDA c : c.discrepancy_detected)

\* "..." in bs.discrepancy_reason, the substring as a run of tokens
Mentions(reason, run) ==
    \E k \in 1..(Len(reason) - Len(run) + 1) :
        SubSeq(reason, k, k + Len(run) - 1) = run

\* the chain with the test for "connection issues" ahead of "close attempts"
CategoryOfIssuesFirst(reason) ==
    IF Mentions(reason, <<"retransmissions">>) THEN "Hidden TCP retransmissions"
    ELSE IF Mentions(reason, <<"connection", "attempts">>)
        THEN "Multiple connection attempts masked"
    ELSE IF Mentions(reason, <<"hidden", "inefficiency">>)
        THEN "Excessive kernel events for fast operation"
    ELSE IF Mentions(reason, <<"packet", "loss">>) \/ Mentions(reason, <<"no", "response">>)
        THEN "Asymmetric data transfer"
    ELSE IF Mentions(reason, <<"protocol", "anomaly">>) THEN "Protocol-level anomalies"
    ELSE IF Mentions(reason, <<"connection", "reuse">>)
            \/ Mentions(reason, <<"connection", "issues">>)
        THEN "Connection reuse masking problems"
    ELSE IF Mentions(reason, <<"close", "attempts">>) THEN "Hidden connection issues"
    ELSE IF Mentions(reason, <<"excessive", "system", "calls">>)
        THEN "Inefficient kernel interactions"
    ELSE "Other kernel-visible issues"

\* the if / elif chain of _categorize_blind_spots
CategoryOf(reason) ==
    IF Mentions(reason, <<"retransmissions">>) THEN "Hidden TCP retransmissions"
    ELSE IF Mentions(reason, <<"connection", "attempts">>)
        THEN "Multiple connection attempts masked"
    ELSE IF Mentions(reason, <<"hidden", "inefficiency">>)
        THEN "Excessive kernel events for fast operation"
    ELSE IF Mentions(reason, <<"packet", "loss">>) \/ Mentions(reason, <<"no", "response">>)
        THEN "Asymmetric data transfer"
    ELSE IF Mentions(reason, <<"protocol", "anomaly">>) THEN "Protocol-level anomalies"
    ELSE IF Mentions(reason, <<"close", "attempts">>) THEN "Hidden connection issues"
    ELSE IF Mentions(reason, <<"connection", "reuse">>)
            \/ Mentions(reason, <<"connection", "issues">>)
        THEN "Connection reuse masking problems"
    ELSE IF Mentions(reason, <<"excessive", "system", "calls">>)
        THEN "Inefficient kernel interactions"
    ELSE "Other kernel-visible issues"

\* categories[category] += 1 on a defaultdict(int)
Increment(categories, category) ==
    IF \E j \in 1..Len(categories) : categories[j][1] = category
    THEN [j \in 1..Len(categories) |->
             IF categories[j][1] = category
             THEN <<category, categories[j][2] + 1>> ELSE categories[j]]
    ELSE Append(categories, <<category, 1>>)

RECURSIVE CategorizeFrom(_, _, _)
\* for bs in blind_spots: if bs.discrepancy_reason: ...
CategorizeFrom(categories, blind_spots, i) ==
    IF i > Len(blind_spots) THEN categories
    ELSE LET reason == blind_spots[i].discrepancy_reason
         IN  CategorizeFrom(IF reason # None /\ reason[1] # <<>>
                                THEN Increment(categories, CategoryOf(reason[1]))
                                ELSE categories,
                            blind_spots, i + 1)

\* CrossLayerCorrelator._categorize_blind_spots
CategorizeBlindSpots(blind_spots) == CategorizeFrom(<<>>, blind_spots, 1)

\* one dict of data['correlations']
ExportEntry(c) ==
    [ request_id           |-> c.request_id,
      app_latency_ms       |-> c.app_latency_ms,
      app_status_code      |-> c.app_status_code,
      kernel_events_count  |-> c.kernel_event_count,
      kernel_bytes_sent    |-> c.kernel_total_bytes_sent,
      kernel_bytes_recv    |-> c.kernel_total_bytes_recv,
      discrepancy_detected |-> c.discrepancy_detected,
      discrepancy_reason   |-> c.discrepancy_reason,
      kernel_events        |-> c.kernel_events ]

\* the dict data of export_correlations
ExportCorrelationsOp(list) ==
    LET blind_spots == GetBlindSpots(list)
    IN  [ total_requests       |-> Len(list),
          blind_spots_detected |-> Len(blind_spots),
          blind_spot_types     |-> CategorizeBlindSpots(blind_spots),
          correlations         |-> [i \in 1..Len(list) |-> ExportEntry(list[i])] ]

----------------------------------------------------------------------------
(* The input streams *)

\* a KernelEvent record
KernelEvent(timestamp_ns, event_type, bytes) ==
    [timestamp_ns |-> timestamp_ns, pid |-> 4242, event_type |-> event_type,
     bytes |-> bytes]

\* an ApplicationRequestRecord as the load generator writes it: the request
\* starts half a nanosecond after start_ns and latency_ms = (end - start) * 1000
RequestRecord(request_id, start_ns, latency_ms, result, status_code) ==
    [request_id |-> request_id,
     start_time |-> 2 * start_ns + 1,
     end_time   |-> 2 * start_ns + 1 + latency_ms * 20000,
     latency_ms |-> latency_ms,
     result     |-> Some(result),
     status_code |-> status_code]

Rep(n, e) == [i \in 1..n |-> e]

Windows == {0, 1}     \* time_window_ms

\* Join family: short lists of requests and events around the window edges
JoinKinds == {"ok", "timeout"}

JoinRequest(i, kind) ==
    IF kind = "ok"
    THEN RequestRecord(i, 2000000, 100, "success", Some(HttpOk))
    ELSE RequestRecord(10 + i, 3000000, 0, "timeout", None)

JoinMetrics ==
    UNION {{[i \in 1..n |-> JoinRequest(i, k[i])] : k \in [1..n -> JoinKinds]}
           : n \in 0..MaxRequests}

JoinEventSet ==
    {KernelEvent(ts, "send", 1001) : ts \in {999999, 1000000, 2000000, 4000000, 4000001}}
    \cup
    {KernelEvent(999999, "retransmit", 0), KernelEvent(2000000, "retransmit", 7)}

JoinEvents == UNION {[1..n -> JoinEventSet] : n \in 0..MaxEvents}

\* Rule family: one request and a kernel stream given by its per-type counts
RuleLatencies == {999, 1000, 1999, 2000}
RuleOutcomes ==
    { <<"success", Some(500)>>, <<"error", Some(HttpOk)>>, <<"error", Some(500)>> }
SendOptions == { <<0, 0>>, <<1, 100>>, <<1, 1001>>, <<10, 100>>, <<11, 100>> }
RecvOptions == { <<0, 0>>, <<1, 0>>, <<1, 1001>>, <<11, 0>> }
ConnectCounts == {0, 1, 2}
CloseCounts == {0, 2, 3}
RetransmitCounts == {0, 1}
OtherCounts == {0, 19, 20, 50}

RuleMetrics ==
    { <<RequestRecord(1, 2000000, l, "success", Some(HttpOk))>> : l \in RuleLatencies }
    \cup
    { <<RequestRecord(1, 2000000, 999, o[1], o[2])>> : o \in RuleOutcomes }

RuleStream(nc, s, r, nt, no, ncl) ==
    Rep(nc, KernelEvent(2000000, "connect", 0))
    \o Rep(s[1], KernelEvent(2000000, "send", s[2]))
    \o Rep(r[1], KernelEvent(2000000, "recv", r[2]))
    \o Rep(nt, KernelEvent(2000000, "retransmit", 0))
    \o Rep(no, KernelEvent(2000000, "timeout", 0))
    \o Rep(ncl, KernelEvent(2000000, "close", 0))

RuleEvents ==
    { RuleStream(nc, s, r, nt, no, ncl) :
        nc \in ConnectCounts, s \in SendOptions, r \in RecvOptions,
        nt \in RetransmitCounts, no \in OtherCounts, ncl \in CloseCounts }

\* Malformed family: records written without one of the fields the
\* correlator subscripts
Without(record, field) == [f \in DOMAIN record \ {field} |-> record[f]]

EventFields == {"timestamp_ns", "pid", "event_type", "bytes"}
RequestFields == {"request_id", "start_time", "end_time", "latency_ms"}

MalformedMetrics ==
    { <<JoinRequest(1, "ok"), r, JoinRequest(3, "ok")>> :
        r \in {JoinRequest(2, "ok")}
              \cup {Without(JoinRequest(2, "ok"), f) : f \in RequestFields} }

MalformedEvents ==
    { <<KernelEvent(2000000, "send", 1001), e>> :
        e \in {KernelEvent(2000000, "recv", 7)}
              \cup {Without(KernelEvent(2000000, "recv", 7), f) : f \in EventFields}
              \cup {Without(KernelEvent(2000000, "retransmit", 7), f) : f \in EventFields}
              \cup {Without(KernelEvent(9000000, "send", 7), f) : f \in EventFields} }

\* Session family: every request has its own stretch of the kernel stream,
\* 60 ms after the one before, and a scenario fixes its outcome and the
\* events of its stretch
Scenario(name) ==
    CASE name = "clean" ->
            [latency_ms |-> 5000, outcome |-> <<"success", Some(HttpOk)>>,
             stream |-> RuleStream(1, <<1, 100>>, <<1, 1001>>, 0, 0, 1)]
      [] name = "retransmit" ->
            [latency_ms |-> 5000, outcome |-> <<"success", Some(HttpOk)>>,
             stream |-> RuleStream(1, <<1, 100>>, <<1, 1001>>, 1, 0, 1)]
      [] name = "reconnect" ->
            [latency_ms |-> 5000, outcome |-> <<"success", Some(HttpOk)>>,
             stream |-> RuleStream(2, <<1, 100>>, <<1, 1001>>, 0, 0, 1)]
      [] name = "busy" ->
            [latency_ms |-> 500, outcome |-> <<"success", Some(HttpOk)>>,
             stream |-> RuleStream(1, <<1, 100>>, <<1, 1001>>, 0, 50, 0)]
      [] name = "unanswered" ->
            [latency_ms |-> 5000, outcome |-> <<"success", Some(HttpOk)>>,
             stream |-> RuleStream(1, <<1, 1001>>, <<0, 0>>, 0, 0, 1)]
      [] name = "unasked" ->
            [latency_ms |-> 5000, outcome |-> <<"success", Some(HttpOk)>>,
             stream |-> RuleStream(1, <<0, 0>>, <<1, 1001>>, 0, 0, 1)]
      [] name = "closing" ->
            [latency_ms |-> 1500, outcome |-> <<"success", Some(HttpOk)>>,
             stream |-> RuleStream(1, <<1, 100>>, <<1, 1001>>, 0, 0, 3)]
      [] name = "reused" ->
            [latency_ms |-> 5000, outcome |-> <<"success", Some(HttpOk)>>,
             stream |-> RuleStream(0, <<1, 100>>, <<1, 1001>>, 0, 20, 0)]
      [] name = "chatty" ->
            [latency_ms |-> 5000, outcome |-> <<"success", Some(HttpOk)>>,
             stream |-> RuleStream(1, <<11, 100>>, <<1, 1001>>, 0, 0, 1)]
      [] name = "failed" ->
            [latency_ms |-> 5000, outcome |-> <<"error", Some(500)>>,
             stream |-> RuleStream(1, <<1, 100>>, <<0, 0>>, 1, 0, 1)]
      [] name = "timed out" ->
            [latency_ms |-> 5000, outcome |-> <<"timeout", None>>,
             stream |-> RuleStream(1, <<1, 100>>, <<0, 0>>, 1, 1, 0)]
      [] name = "unseen" ->
            [latency_ms |-> 1000, outcome |-> <<"success", Some(HttpOk)>>,
             stream |-> <<>>]

\* the start of the i-th request of a session, in nanoseconds
SessionStart(i) == 2000000 + (i - 1) * 60000000

SessionMetrics(names) ==
    [i \in 1..Len(names) |->
        RequestRecord(i, SessionStart(i), Scenario(names[i]).latency_ms,
                      Scenario(names[i]).outcome[1], Scenario(names[i]).outcome[2])]

\* the stretch of the i-th request, moved from 2 ms to the start of the request
SessionStretch(names, i) ==
    LET stream == Scenario(names[i]).stream
    IN  [j \in 1..Len(stream) |->
            [stream[j] EXCEPT !.timestamp_ns = SessionStart(i)]]

RECURSIVE SessionEventsFrom(_, _)
SessionEventsFrom(names, i) ==
    IF i > Len(names) THEN <<>>
    ELSE SessionStretch(names, i) \o SessionEventsFrom(names, i + 1)

SessionEvents(names) == SessionEventsFrom(names, 1)

SessionRuns ==
    { <<>>,
      <<"clean">>, <<"unseen">>, <<"retransmit">>, <<"failed">>,
      <<"timed out", "clean">>,
      <<"closing", "reused">>,
      <<"retransmit", "failed", "closing", "retransmit">>,
      <<"chatty", "timed out", "unanswered", "failed", "unasked">>,
      <<"retransmit", "reconnect", "busy", "unanswered", "unasked", "closing",
        "reused", "chatty", "clean">> }

----------------------------------------------------------------------------
(* Floats of the analyzer: a float is held as the exact fraction <<n, d>>   *)
(* in lowest terms with d > 0; latencies are in hundredths of a millisecond *)

RECURSIVE Gcd(_, _)
Gcd(a, b) == IF b = 0 THEN a ELSE Gcd(b, a % b)

Abs(n) == IF n < 0 THEN -n ELSE n

\* n / d
Frac(n, d) ==
    LET g == Gcd(Abs(n), d)
    IN  IF n < 0 THEN <<-(Abs(n) \div g), d \div g>> ELSE <<n \div g, d \div g>>

\* float(n)
FracOfInt(n) == <<n, 1>>

\* 0.0
Zero == FracOfInt(0)

FracAdd(a, b) == Frac(a[1] * b[2] + b[1] * a[2], a[2] * b[2])

FracSub(a, b) == Frac(a[1] * b[2] - b[1] * a[2], a[2] * b[2])

\* a / n for a positive integer n
FracDivInt(a, n) == Frac(a[1], a[2] * n)

\* a < b and a <= b
FracLess(a, b) == a[1] * b[2] < b[1] * a[2]
FracLeq(a, b) == a[1] * b[2] <= b[1] * a[2]

\* the exception of a float division by zero
ZeroDivisionError == Some("ZeroDivisionError")

\* a / b: the quotient, or ZeroDivisionError when b is 0
Quotient(a, b) ==
    IF b[1] = 0 THEN ZeroDivisionError
    ELSE IF b[1] < 0 THEN Frac((-a[1]) * b[2], a[2] * (-b[1]))
    ELSE Frac(a[1] * b[2], a[2] * b[1])

\* x * 100, an exception in x propagating
Times100(x) ==
    IF x = ZeroDivisionError THEN x
    ELSE LET g == Gcd(100, x[2]) IN <<x[1] * (100 \div g), x[2] \div g>>

RECURSIVE SumFrom(_, _)
\* sum(xs) of integers, from position i
SumFrom(xs, i) == IF i > Len(xs) THEN 0 ELSE xs[i] + SumFrom(xs, i + 1)

Sum(xs) == SumFrom(xs, 1)

RECURSIVE FracSumFrom(_, _)
\* sum(xs) of floats, from position i
FracSumFrom(xs, i) ==
    IF i > Len(xs) THEN Zero ELSE FracAdd(xs[i], FracSumFrom(xs, i + 1))

\* statistics.mean(xs) of integers and of floats, xs not empty
Mean(xs) == Frac(Sum(xs), Len(xs))
FracMean(xs) == FracDivInt(FracSumFrom(xs, 1), Len(xs))

\* the list xs with x put before the first element greater than x
InsertSorted(xs, x) ==
    LET k == Cardinality({i \in 1..Len(xs) : xs[i] <= x})
    IN  SubSeq(xs, 1, k) \o <<x>> \o SubSeq(xs, k + 1, Len(xs))

RECURSIVE SortedUpTo(_, _)
\* sorted(xs[:i])
SortedUpTo(xs, i) ==
    IF i = 0 THEN <<>> ELSE InsertSorted(SortedUpTo(xs, i - 1), xs[i])

\* the list as given, in place of sorted(latencies)
Unsorted(xs) == xs

\* sorted(xs)
Sorted(xs) == SortedUpTo(xs, Len(xs))

\* statistics.median(xs), xs not empty: the middle sample, or the mean of the
\* two middle samples
Median(xs) ==
    LET s == Sorted(xs)
        n == Len(s)
    IN  IF n % 2 = 1 THEN FracOfInt(s[(n \div 2) + 1])
        ELSE Frac(s[n \div 2] + s[(n \div 2) + 1], 2)

\* statistics.stdev(xs), two samples or more: a square root, held as the
\* sorted samples it is computed from behind the marker -1
Stdev(xs) == <<-1>> \o Sorted(xs)

\* the nearest-rank index taken one too low
PercentileIndexBelow(n, percentile) ==
    IF (percentile * n) \div 100 = 0 THEN 0 ELSE ((percentile * n) \div 100) - 1

\* index = int((percentile / 100.0) * n); if index >= n: index = n - 1
PercentileIndex(n, percentile) ==
    IF IntTrunc(percentile * n, 100) >= n THEN n - 1 ELSE IntTrunc(percentile * n, 100)

\* PerformanceAnalyzer._percentile
Percentile(sorted_data, percentile) ==
    IF sorted_data = <<>> THEN Zero
    ELSE FracOfInt(sorted_data[PercentileIndex(Len(sorted_data), percentile) + 1])

----------------------------------------------------------------------------
(* PerformanceAnalyzer: the records *)

\* AggregatedStatistics()
AggregatedStatistics ==
    [ total_requests |-> 0, successful_requests |-> 0, failed_requests |-> 0,
      latency_avg |-> Zero, latency_median |-> Zero, latency_min |-> Zero,
      latency_max |-> Zero, latency_stddev |-> Zero,
      latency_p50 |-> Zero, latency_p90 |-> Zero, latency_p95 |-> Zero,
      latency_p99 |-> Zero,
      throughput_avg_mbps |-> Zero, throughput_total_mb |-> Zero,
      bytes_sent_total |-> 0, bytes_received_total |-> 0,
      kernel_events_avg |-> Zero, kernel_events_total |-> 0,
      bytes_per_event_avg |-> Zero, connection_duration_avg_ms |-> Zero,
      success_rate_pct |-> FracOfInt(100), error_rate_pct |-> Zero,
      requests_per_second |-> Zero, events_per_second |-> Zero,
      blind_spots_count |-> 0, blind_spots_pct |-> Zero,
      discrepancy_types |-> <<>>,
      high_latency_count |-> 0, low_throughput_count |-> 0, timeout_count |-> 0 ]

\* str(x).lower() of one word of a reason
Lower(word) == IF word \in {"Timeout", "TIMEOUT"} THEN "timeout" ELSE word

\* 'timeout' in str(corr.get('discrepancy_reason', '')).lower()
MentionsTimeout(reason) ==
    reason # None /\ \E j \in 1..Len(reason[1]) : Lower(reason[1][j]) = "timeout"

\* (total_bytes * 8) / (latency_ms / 1000.0) if latency_ms > 0 else 0.0
ThroughputBps(total_bytes, latency_ms) ==
    IF latency_ms > 0
    THEN LET g == Gcd(100000, latency_ms)
         IN  Frac(total_bytes * 8 * (100000 \div g), latency_ms \div g)
    ELSE Zero

\* the PerformanceMetrics that analyze_correlations makes of one correlation
CorrelationMetric(corr) ==
    LET total_bytes == Get(corr, "kernel_bytes_sent", 0) + Get(corr, "kernel_bytes_recv", 0)
        latency_ms == Get(corr, "app_latency_ms", 0)
        success == Get(corr, "app_success", TRUE)
        error_type ==
            IF success THEN None
            ELSE IF MentionsTimeout(Get(corr, "discrepancy_reason", Some(<<>>)))
                 THEN Some("timeout")
                 ELSE Some("error")
    IN  [ request_id             |-> Get(corr, "request_id", 0),
          latency_ms             |-> latency_ms,
          bytes_sent             |-> Get(corr, "kernel_bytes_sent", 0),
          bytes_received         |-> Get(corr, "kernel_bytes_recv", 0),
          throughput_bps         |-> ThroughputBps(total_bytes, latency_ms),
          kernel_events_count    |-> Get(corr, "kernel_events_count", 0),
          connection_duration_ns |-> Get(corr, "kernel_connection_duration_ns", 0),
          success                |-> success,
          error_type             |-> error_type ]

\* the PerformanceMetrics that analyze_baseline makes of one request record
BaselineMetric(metric) ==
    LET success == AppSuccess(metric)
    IN  [ request_id             |-> Get(metric, "request_id", 0),
          latency_ms             |-> Get(metric, "latency_ms", 0),
          bytes_sent             |-> 0,
          bytes_received         |-> 0,
          throughput_bps         |-> Zero,
          kernel_events_count    |-> 0,
          connection_duration_ns |-> 0,
          success                |-> success,
          error_type             |-> IF success THEN None ELSE Get(metric, "result", None) ]

----------------------------------------------------------------------------
(* PerformanceAnalyzer: the statistics *)

\* [m.latency_ms for m in self.metrics]
Latencies(metrics) == [i \in 1..Len(metrics) |-> metrics[i].latency_ms]

\* min(xs) and max(xs), xs not empty
MinOf(xs) == CHOOSE x \in {xs[i] : i \in 1..Len(xs)} : \A i \in 1..Len(xs) : x <= xs[i]
MaxOf(xs) == CHOOSE x \in {xs[i] : i \in 1..Len(xs)} : \A i \in 1..Len(xs) : x >= xs[i]

\* sum(1 for m in self.metrics if m.success)
SuccessfulRequests(metrics) ==
    Cardinality({i \in 1..Len(metrics) : metrics[i].success})

\* sum(1 for m in self.metrics if m.latency_ms > self.high_latency_threshold_ms)
HighLatencyCount(metrics) ==
    Cardinality({i \in 1..Len(metrics) :
                    metrics[i].latency_ms > HighLatencyThresholdMs * 100})

\* sum(1 for m in self.metrics if m.error_type == 'timeout')
TimeoutCount(metrics) ==
    Cardinality({i \in 1..Len(metrics) : metrics[i].error_type = Some("timeout")})

\* the counts, rates, latency statistics and flags that both
\* _calculate_statistics and _calculate_baseline_statistics assign
CountsAndLatencies(stats, metrics) ==
    LET total == Len(metrics)
        successful == SuccessfulRequests(metrics)
        latencies == Latencies(metrics)
        sorted_latencies == Sorted(latencies)
        success_rate_pct == Frac(successful * 100, total)
    IN  [stats EXCEPT
            !.total_requests = total,
            !.successful_requests = successful,
            !.failed_requests = total - successful,
            !.success_rate_pct = success_rate_pct,
            !.error_rate_pct = FracSub(FracOfInt(100), success_rate_pct),
            !.latency_avg = Mean(latencies),
            !.latency_median = Median(latencies),
            !.latency_min = FracOfInt(MinOf(latencies)),
            !.latency_max = FracOfInt(MaxOf(latencies)),
            !.latency_stddev = IF total > 1 THEN Stdev(latencies) ELSE @,
            !.latency_p50 = Percentile(sorted_latencies, 50),
            !.latency_p90 = Percentile(sorted_latencies, 90),
            !.latency_p95 = Percentile(sorted_latencies, 95),
            !.latency_p99 = Percentile(sorted_latencies, 99),
            !.high_latency_count = HighLatencyCount(metrics),
            !.timeout_count = TimeoutCount(metrics)]

\* throughputs = [m.throughput_bps for m in self.metrics if m.throughput_bps > 0]
Throughputs(metrics) ==
    LET kept == SelectSeq(metrics, LAMBDA m : FracLess(Zero, m.throughput_bps))
    IN  [i \in 1..Len(kept) |-> kept[i].throughput_bps]

\* event_counts = [m.kernel_events_count for m in self.metrics if m.kernel_events_count > 0]
EventCounts(metrics) ==
    LET kept == SelectSeq(metrics, LAMBDA m : m.kernel_events_count > 0)
    IN  [i \in 1..Len(kept) |-> kept[i].kernel_events_count]

\* durations = [m.connection_duration_ns / 1_000_000 for m in self.metrics
\*              if m.connection_duration_ns > 0]
Durations(metrics) ==
    LET kept == SelectSeq(metrics, LAMBDA m : m.connection_duration_ns > 0)
    IN  [i \in 1..Len(kept) |-> Frac(kept[i].connection_duration_ns, NsPerMs)]

\* sum(1 for m in self.metrics if m.throughput_bps > 0
\*     and m.throughput_bps < self.low_throughput_threshold_mbps * 1_000_000)
LowThroughputCount(metrics) ==
    Cardinality({i \in 1..Len(metrics) :
        /\ FracLess(Zero, metrics[i].throughput_bps)
        /\ FracLess(metrics[i].throughput_bps,
                    FracOfInt(LowThroughputThresholdMbps * BitsPerMegabit))})

\* PerformanceAnalyzer._calculate_statistics
CalculateStatistics(stats, metrics, correlation_data) ==
    IF metrics = <<>> THEN stats
    ELSE
    LET base == CountsAndLatencies(stats, metrics)
        throughputs == Throughputs(metrics)
        bytes_sent_total == Sum([i \in 1..Len(metrics) |-> metrics[i].bytes_sent])
        bytes_received_total == Sum([i \in 1..Len(metrics) |-> metrics[i].bytes_received])
        total_bytes == bytes_sent_total + bytes_received_total
        event_counts == EventCounts(metrics)
        kernel_events_total ==
            IF event_counts # <<>> THEN Sum(event_counts) ELSE stats.kernel_events_total
        durations == Durations(metrics)
        blind_spots_count == Get(correlation_data, "blind_spots_detected", 0)
    IN  [base EXCEPT
            !.throughput_avg_mbps =
                IF throughputs # <<>>
                THEN FracDivInt(FracMean(throughputs), BitsPerMegabit) ELSE @,
            !.bytes_sent_total = bytes_sent_total,
            !.bytes_received_total = bytes_received_total,
            !.throughput_total_mb = Frac(total_bytes, BytesPerMegabyte),
            !.kernel_events_avg = IF event_counts # <<>> THEN Mean(event_counts) ELSE @,
            !.kernel_events_total = kernel_events_total,
            !.bytes_per_event_avg =
                IF event_counts # <<>> /\ kernel_events_total > 0
                THEN Frac(total_bytes, kernel_events_total) ELSE @,
            !.connection_duration_avg_ms =
                IF durations # <<>> THEN FracMean(durations) ELSE @,
            !.low_throughput_count = LowThroughputCount(metrics),
            !.blind_spots_count = blind_spots_count,
            !.blind_spots_pct = Frac(blind_spots_count * 100, Len(metrics)),
            !.discrepancy_types = Get(correlation_data, "blind_spot_types", <<>>)]

\* PerformanceAnalyzer._calculate_baseline_statistics
CalculateBaselineStatistics(stats, metrics) ==
    IF metrics = <<>> THEN stats ELSE CountsAndLatencies(stats, metrics)

\* self.metrics.append(metric), for each record of the call
AppendMetrics(metrics, new) == metrics \o new

\* PerformanceAnalyzer.analyze_correlations: <<self.metrics, self.stats>> after it
AnalyzeCorrelationsOp(metrics, stats, correlation_data) ==
    LET corrs == Get(correlation_data, "correlations", <<>>)
    IN  IF corrs = <<>> THEN <<metrics, stats>>
        ELSE LET all == AppendMetrics(metrics,
                            [i \in 1..Len(corrs) |-> CorrelationMetric(corrs[i])])
             IN  <<all, CalculateStatistics(stats, all, correlation_data)>>

\* PerformanceAnalyzer.analyze_baseline: <<self.metrics, self.stats>> after it
AnalyzeBaselineOp(metrics, stats, records) ==
    LET all == AppendMetrics(metrics,
                    [i \in 1..Len(records) |-> BaselineMetric(records[i])])
    IN  <<all, CalculateBaselineStatistics(stats, all)>>

----------------------------------------------------------------------------
(* PerformanceAnalyzer.generate_recommendations and export_report *)

\* timeout_pct = (self.stats.timeout_count / self.stats.total_requests) * 100
TimeoutPct(stats) ==
    Times100(Quotient(FracOfInt(stats.timeout_count), FracOfInt(stats.total_requests)))

\* the warnings of the threshold rules, in the order of the code; a message
\* is held as its subject and the statistic it prints
Warnings(stats) ==
    (IF FracLess(FracOfInt(P95LimitMs * 100), stats.latency_p95)
        THEN << <<"High P95 latency", stats.latency_p95>> >> ELSE <<>>)
    \o (IF FracLess(FracOfInt(MaxLimitMs * 100), stats.latency_max)
        THEN << <<"Very high maximum latency", stats.latency_max>> >> ELSE <<>>)
    \o (IF /\ FracLess(Zero, stats.throughput_avg_mbps)
           /\ FracLess(stats.throughput_avg_mbps, FracOfInt(LowThroughputThresholdMbps))
        THEN << <<"Low average throughput", stats.throughput_avg_mbps>> >> ELSE <<>>)
    \o (IF FracLess(FracOfInt(ErrorRateLimitPct), stats.error_rate_pct)
        THEN << <<"High error rate", stats.error_rate_pct>> >> ELSE <<>>)
    \o (IF stats.timeout_count > 0
        THEN << <<"Timeout issues", TimeoutPct(stats)>> >>
        ELSE <<>>)
    \o (IF /\ FracLess(Zero, stats.bytes_per_event_avg)
           /\ FracLess(stats.bytes_per_event_avg, FracOfInt(BytesPerEventLimit))
        THEN << <<"Low data transfer efficiency", stats.bytes_per_event_avg>> >> ELSE <<>>)
    \o (IF FracLess(FracOfInt(EventsPerRequestLimit), stats.kernel_events_avg)
        THEN << <<"High kernel event count", stats.kernel_events_avg>> >> ELSE <<>>)
    \o (IF FracLess(FracOfInt(BlindSpotsLimitPct), stats.blind_spots_pct)
        THEN << <<"Significant monitoring blind spots", stats.blind_spots_pct>> >> ELSE <<>>)
    \o (IF FracLess(FracOfInt(ConnectionSetupLimitMs), stats.connection_duration_avg_ms)
        THEN << <<"Slow connection setup", stats.connection_duration_avg_ms>> >> ELSE <<>>)

\* the positive feedback, given when no warning was
PositiveFeedback(stats) ==
    (IF stats.success_rate_pct = FracOfInt(100)
        THEN << <<"All requests successful", stats.success_rate_pct>> >> ELSE <<>>)
    \o (IF FracLess(stats.latency_p95, FracOfInt(P95LimitMs * 100))
        THEN << <<"Good latency performance", stats.latency_p95>> >> ELSE <<>>)
    \o (IF stats.blind_spots_pct = Zero
        THEN << <<"No blind spots detected", stats.blind_spots_pct>> >> ELSE <<>>)

\* PerformanceAnalyzer.generate_recommendations
GenerateRecommendations(stats) ==
    IF Warnings(stats) # <<>> THEN Warnings(stats) ELSE PositiveFeedback(stats)

\* generate_recommendations raises: its one division is reached and fails
RecommendationsRaise(stats) ==
    stats.timeout_count > 0 /\ TimeoutPct(stats) = ZeroDivisionError

----------------------------------------------------------------------------
(* PerformanceAnalyzer.compare_with_baseline *)

\* the latency ratio taken without the test of the baseline average
LatencyImprovementUnguarded(stats, baseline_stats) ==
    Times100(Quotient(FracSub(baseline_stats.latency_avg, stats.latency_avg),
                      baseline_stats.latency_avg))

\* if baseline_stats.latency_avg > 0:
\*     ((baseline_stats.latency_avg - self.stats.latency_avg)
\*      / baseline_stats.latency_avg) * 100
LatencyImprovementPct(stats, baseline_stats) ==
    IF FracLess(Zero, baseline_stats.latency_avg)
    THEN Times100(Quotient(FracSub(baseline_stats.latency_avg, stats.latency_avg),
                           baseline_stats.latency_avg))
    ELSE Zero

\* the error ratio counting the failed requests only
ErrorDetectionFailedOnly(stats, baseline_stats) ==
    IF baseline_stats.failed_requests > 0
    THEN Times100(Quotient(FracOfInt(stats.failed_requests
                                     - baseline_stats.failed_requests),
                           FracOfInt(baseline_stats.failed_requests)))
    ELSE Zero

\* if baseline_detected_errors > 0:
\*     (additional_errors / baseline_detected_errors) * 100
ErrorDetectionImprovementPct(stats, baseline_stats) ==
    LET baseline_detected_errors == baseline_stats.failed_requests
        crosslayer_detected_errors == stats.failed_requests + stats.blind_spots_count
        additional_errors == crosslayer_detected_errors - baseline_detected_errors
    IN  IF baseline_detected_errors > 0
        THEN Times100(Quotient(FracOfInt(additional_errors),
                               FracOfInt(baseline_detected_errors)))
        ELSE Zero

\* comparison['additional_insights']: a message is held as its subject and
\* the statistic it prints
AdditionalInsights(stats) ==
    (IF FracLess(Zero, stats.blind_spots_pct)
        THEN << <<"additional issues", stats.blind_spots_count>> >> ELSE <<>>)
    \o (IF FracLess(Zero, stats.kernel_events_avg)
        THEN << <<"Kernel-level visibility", stats.kernel_events_avg>> >> ELSE <<>>)

\* the dict compare_with_baseline returns
CompareWithBaseline(stats, baseline_stats) ==
    [ latency_improvement_pct |-> LatencyImprovementPct(stats, baseline_stats),
      error_detection_improvement_pct |->
          ErrorDetectionImprovementPct(stats, baseline_stats),
      blind_spots_unique_to_cross_layer |-> stats.blind_spots_count,
      additional_insights |-> AdditionalInsights(stats) ]

\* compare_with_baseline raises: one of its two divisions fails
ComparisonRaises(stats, baseline_stats) ==
    \/ LatencyImprovementPct(stats, baseline_stats) = ZeroDivisionError
    \/ ErrorDetectionImprovementPct(stats, baseline_stats) = ZeroDivisionError

\* one record of 'detailed_metrics'
DetailedMetric(m) ==
    [ request_id             |-> m.request_id,
      latency_ms             |-> m.latency_ms,
      throughput_mbps        |-> FracDivInt(m.throughput_bps, BitsPerMegabit),
      bytes_sent             |-> m.bytes_sent,
      bytes_received         |-> m.bytes_received,
      kernel_events          |-> m.kernel_events_count,
      connection_duration_ms |-> Frac(m.connection_duration_ns, NsPerMs),
      success                |-> m.success,
      error_type             |-> m.error_type ]

\* the report that PerformanceAnalyzer.export_report writes
ExportReportOp(metrics, stats) ==
    [ summary          |-> stats,
      recommendations  |-> GenerateRecommendations(stats),
      detailed_metrics |-> [i \in 1..Len(metrics) |-> DetailedMetric(metrics[i])],
      thresholds       |-> [ high_latency_ms     |-> HighLatencyThresholdMs,
                             low_throughput_mbps |-> LowThroughputThresholdMbps ] ]

\* a new PerformanceAnalyzer given the records of a report as the
\* correlations of its input: the statistics it computes
Reanalyze(detailed_metrics) ==
    AnalyzeCorrelationsOp(<<>>, AggregatedStatistics,
                          [correlations |-> detailed_metrics])[2]

----------------------------------------------------------------------------
(* The inputs of the analyzer *)

\* one entry of 'correlations' as export_correlations writes it
CorrelationEntry(request_id, app_latency_ms, events_count, bytes_sent, bytes_recv, reason) ==
    [ request_id           |-> request_id,
      app_latency_ms       |-> app_latency_ms,
      app_status_code      |-> Some(HttpOk),
      kernel_events_count  |-> events_count,
      kernel_bytes_sent    |-> bytes_sent,
      kernel_bytes_recv    |-> bytes_recv,
      discrepancy_detected |-> reason # None,
      discrepancy_reason   |-> reason ]

\* the entry with the 'app_success' key that analyze_correlations reads
Judged(entry, app_success) ==
    [k \in DOMAIN entry \cup {"app_success"} |->
        IF k = "app_success" THEN app_success ELSE entry[k]]

\* the dict that export_correlations writes around a list of entries
CorrelationData(entries) ==
    LET flagged == SelectSeq(entries, LAMBDA c : c.discrepancy_detected)
        hidden == SelectSeq(flagged,
                      LAMBDA c : c.discrepancy_reason = Some(ReasonRetransmissions(1)))
    IN  [ total_requests       |-> Len(entries),
          blind_spots_detected |-> Len(flagged),
          blind_spot_types     |->
              (IF Len(hidden) > 0
                  THEN << <<"Hidden TCP retransmissions", Len(hidden)>> >> ELSE <<>>)
              \o (IF Len(flagged) > Len(hidden)
                  THEN << <<"Other kernel-visible issues", Len(flagged) - Len(hidden)>> >>
                  ELSE <<>>),
          correlations         |-> entries ]

\* 10 ms, 1000 bytes over 4 events: 0.8 Mbps
SlowLink(i) == CorrelationEntry(i, 1000, 4, 600, 400, None)
\* 5 ms, 2000 bytes over 2 events: 3.2 Mbps
FastLink(i) == CorrelationEntry(i, 500, 2, 2000, 0, None)
\* no measurable latency
Instant(i) == CorrelationEntry(i, 0, 1, 100, 0, None)
\* 50 ms and no kernel bytes
Silent(i) == CorrelationEntry(i, 5000, 0, 0, 0, None)
\* 200 ms, flagged for one retransmission
Retransmitted(i) == CorrelationEntry(i, 20000, 3, 0, 0, Some(ReasonRetransmissions(1)))
\* 50 ms, reported failed by the application
Failed(i) == Judged(Silent(i), FALSE)
\* 200 ms, reported failed with a timeout in the reason
TimedOut(i) ==
    Judged(CorrelationEntry(i, 20000, 1, 0, 0, Some(<<"Kernel", "Timeout", "seen">>)), FALSE)

\* twenty requests of 50 ms: eighteen plain, one flagged, one failed
SteadyBatch ==
    [i \in 1..18 |-> Silent(i)]
    \o << CorrelationEntry(19, 5000, 1, 0, 0, Some(ReasonRetransmissions(1))), Failed(20) >>

\* twenty requests of 100 ms down to 5 ms, slowest first
RampBatch == [i \in 1..20 |-> CorrelationEntry(i, 500 * (21 - i), 1, 0, 0, None)]

CorrelationBatches ==
    { <<>>,
      <<SlowLink(1)>>, <<FastLink(1)>>, <<Instant(1)>>, <<Silent(1)>>,
      <<Retransmitted(1)>>, <<TimedOut(1)>>,
      <<FastLink(1), SlowLink(2)>>, <<SlowLink(1), Instant(2)>>,
      <<SlowLink(1), Silent(2)>>, <<Instant(1), Silent(2)>>,
      <<Retransmitted(1), FastLink(2), SlowLink(3)>>,
      <<SlowLink(1), Retransmitted(2), FastLink(3)>>,
      <<Failed(1), SlowLink(2), SlowLink(3)>>,
      SteadyBatch, RampBatch }

CorrelationInputs == {CorrelationData(entries) : entries \in CorrelationBatches}

\* application-only request lists
BaselineInputs ==
    { <<>>,
      <<RequestRecord(1, 2000000, 1000, "success", Some(HttpOk))>>,
      <<RequestRecord(1, 2000000, 20000, "error", Some(HttpOk)),
        RequestRecord(2, 3000000, 500, "success", None)>>,
      <<RequestRecord(1, 2000000, 500, "timeout", None)>>,
      <<RequestRecord(1, 2000000, 5000, "error", Some(500)),
        RequestRecord(2, 3000000, 0, "success", Some(HttpOk)),
        RequestRecord(3, 4000000, 1000, "success", Some(HttpOk))>> }

\* request lists of the baseline analyzer whose statistics are compared
ComparisonBaselines ==
    { <<>>,
      <<RequestRecord(1, 2000000, 0, "error", Some(500))>>,
      <<RequestRecord(1, 2000000, 1000, "success", Some(HttpOk))>>,
      <<RequestRecord(1, 2000000, 500, "timeout", None)>>,
      <<RequestRecord(1, 2000000, 5000, "error", Some(500)),
        RequestRecord(2, 3000000, 0, "timeout", None),
        RequestRecord(3, 4000000, 1000, "success", Some(HttpOk))>> }

\* baseline_analyzer = PerformanceAnalyzer();
\* baseline_analyzer.analyze_baseline(baseline_data); baseline_analyzer.stats
BaselineStats(records) == AnalyzeBaselineOp(<<>>, AggregatedStatistics, records)[2]

----------------------------------------------------------------------------
(* The state machine *)

Init ==
    /\ time_window_ns \in {TimeWindowNs(ms) : ms \in Windows}
    /\ correlations = <<>>
    /\ app_metrics = <<>>
    /\ ebpf_events = <<>>
    /\ loaded = FALSE
    /\ returned = <<>>
    /\ calls = 0
    /\ raised = None
    /\ analyzer_metrics = <<>>
    /\ analyzer_stats = AggregatedStatistics
    /\ passes = 0
    /\ last_call = None
    /\ recommendations = None
    /\ report = None
    /\ reimported = None
    /\ comparison = None
    /\ fault = None
    /\ held = <<>>
    /\ history = <<>>
    /\ exported = None
    /\ analyzed = None
    /\ test_pc = "start"
    /\ poll_pc = "not started"
    /\ monitor_running = FALSE
    /\ monitor_events = <<>>
    /\ perf_buffer = <<>>
    /\ emitted = 0
    /\ captured = None
    /\ combined_file = None
    /\ ebpf_file = None
    /\ client_pc = "constructed"
    /\ client_running = TRUE
    /\ num_requests = None
    /\ last_request_id = 0
    /\ client_metrics = <<>>
    /\ signalled = None

\* main: load_app_metrics, load_ebpf_events
Load ==
    /\ ~loaded
    /\ \/ (app_metrics' \in JoinMetrics /\ ebpf_events' \in JoinEvents)
       \/ (app_metrics' \in RuleMetrics /\ ebpf_events' \in RuleEvents)
       \/ (app_metrics' \in MalformedMetrics /\ ebpf_events' \in MalformedEvents)
    /\ loaded' = TRUE
    /\ UNCHANGED <<time_window_ns, correlations, returned, calls, raised,
                   session_vars, outside_correlator>>

\* correlator.correlate(app_metrics, ebpf_events): it returns the list, or a
\* KeyError leaves the call without a result and ends the run
CorrelateCall ==
    /\ loaded
    /\ exported = None
    /\ calls < MaxCalls
    /\ raised = None
    /\ LET at == KeyErrorAt(app_metrics, ebpf_events, time_window_ns)
       IN  IF at = None
           THEN /\ correlations' = CorrelateLoop(ResetCorrelations(correlations),
                                                 app_metrics, ebpf_events,
                                                 time_window_ns)
                /\ returned' = correlations'
                /\ calls' = calls + 1
                /\ raised' = None
           ELSE /\ correlations' = CorrelationsAtRaise(correlations, app_metrics,
                                                       ebpf_events, time_window_ns,
                                                       at[1])
                /\ raised' = Some("KeyError")
                /\ UNCHANGED <<returned, calls>>
    /\ UNCHANGED <<time_window_ns, app_metrics, ebpf_events, loaded, exported,
                   analyzed, outside_correlator>>

\* main: correlations = correlator.correlate(app_metrics, ebpf_events)
Correlate == CorrelateCall /\ UNCHANGED <<held, history>>

Next == Load \/ Correlate

Spec == Init /\ [][Next]_vars

----------------------------------------------------------------------------
(* A session on one correlator: correlate calls on changing inputs, whose   *)
(* caller keeps the lists it was given, then the export and its analysis.   *)

\* load_app_metrics, load_ebpf_events: the inputs of the next call
LoadSession ==
    /\ calls < MaxCalls
    /\ exported = None
    /\ \E names \in SessionRuns :
          /\ app_metrics' = SessionMetrics(names)
          /\ ebpf_events' = SessionEvents(names)
    /\ loaded' = TRUE
    /\ UNCHANGED <<time_window_ns, correlations, returned, calls, raised,
                   session_vars, outside_correlator>>

\* correlator.correlate(app_metrics, ebpf_events), the caller keeping the
\* list it gets next to the lists of the earlier calls
CorrelateAgain ==
    /\ CorrelateCall
    /\ raised' = None
    /\ held' = Append(IF held = <<>> THEN held
                      ELSE [held EXCEPT ![Len(held)] = PreviousList(@)],
                      returned')
    /\ history' = Append(history, [app_metrics |-> app_metrics,
                                   returned |-> returned'])

\* correlator.get_blind_spots() and correlator.export_correlations(path)
ExportCorrelations ==
    /\ exported = None
    /\ raised = None
    /\ exported' = Some([ blind_spots |-> GetBlindSpots(correlations),
                          data |-> ExportCorrelationsOp(correlations) ])
    /\ UNCHANGED <<correlator_vars, held, history, analyzed, outside_correlator>>

\* analyzer.py main on the exported file:
\* PerformanceAnalyzer().analyze_correlations(load_correlations(path))
AnalyzeExport ==
    /\ exported # None
    /\ analyzed = None
    /\ analyzed' = Some(AnalyzeCorrelationsOp(<<>>, AggregatedStatistics,
                                              exported[1].data)[2])
    /\ UNCHANGED <<correlator_vars, held, history, exported, outside_correlator>>

NextSession == LoadSession \/ CorrelateAgain \/ ExportCorrelations \/ AnalyzeExport

SpecSession == Init /\ [][NextSession]_vars

----------------------------------------------------------------------------
(* The analyzer: analysis passes on one PerformanceAnalyzer, then its       *)
(* recommendations and its report.  generate_recommendations and            *)
(* export_report change nothing of the analyzer, so the passes are taken    *)
(* before them.                                                             *)

\* analyzer.analyze_correlations(correlation_data)
AnalyzeCorrelations ==
    /\ passes < MaxPasses
    /\ recommendations = None /\ report = None
    /\ \E correlation_data \in CorrelationInputs :
          LET after == AnalyzeCorrelationsOp(analyzer_metrics, analyzer_stats, correlation_data)
          IN  /\ analyzer_metrics' = after[1]
              /\ analyzer_stats' = after[2]
              /\ last_call' = <<"correlations", correlation_data>>
    /\ passes' = passes + 1
    /\ UNCHANGED <<outside_analyzer, recommendations, report, reimported,
                   comparison, fault>>

\* analyzer.analyze_baseline(app_metrics)
AnalyzeBaseline ==
    /\ passes < MaxPasses
    /\ recommendations = None /\ report = None
    /\ \E records \in BaselineInputs :
          LET after == AnalyzeBaselineOp(analyzer_metrics, analyzer_stats, records)
          IN  /\ analyzer_metrics' = after[1]
              /\ analyzer_stats' = after[2]
              /\ last_call' = <<"baseline", records>>
    /\ passes' = passes + 1
    /\ UNCHANGED <<outside_analyzer, recommendations, report, reimported,
                   comparison, fault>>

\* analyzer.generate_recommendations()
Recommend ==
    /\ recommendations = None
    /\ fault = None
    /\ IF RecommendationsRaise(analyzer_stats)
       THEN fault' = ZeroDivisionError /\ UNCHANGED recommendations
       ELSE recommendations' = Some(GenerateRecommendations(analyzer_stats))
            /\ UNCHANGED fault
    /\ UNCHANGED <<outside_analyzer, analyzer_metrics, analyzer_stats, passes,
                   last_call, report, reimported, comparison>>

\* analyzer.export_report(output_path)
ExportReport ==
    /\ report = None
    /\ report' = Some(ExportReportOp(analyzer_metrics, analyzer_stats))
    /\ UNCHANGED <<outside_analyzer, analyzer_metrics, analyzer_stats, passes, last_call,
                   recommendations, reimported, comparison, fault>>

\* the detailed_metrics of the exported report analysed by a new analyzer
Reimport ==
    /\ report # None
    /\ reimported = None
    /\ comparison = None
    /\ reimported' = Some(Reanalyze(report[1].detailed_metrics))
    /\ UNCHANGED <<outside_analyzer, analyzer_metrics, analyzer_stats, passes, last_call,
                   recommendations, report, comparison, fault>>

\* analyzer.compare_with_baseline(baseline_analyzer.stats), which main calls
\* after print_summary and export_report
Compare ==
    /\ recommendations # None /\ report # None /\ reimported = None
    /\ comparison = None
    /\ fault = None
    /\ \E records \in ComparisonBaselines :
          IF ComparisonRaises(analyzer_stats, BaselineStats(records))
          THEN fault' = ZeroDivisionError /\ UNCHANGED comparison
          ELSE comparison' = Some([ baseline |-> BaselineStats(records),
                                    result |-> CompareWithBaseline(analyzer_stats,
                                                   BaselineStats(records)) ])
               /\ UNCHANGED fault
    /\ UNCHANGED <<outside_analyzer, analyzer_metrics, analyzer_stats, passes,
                   last_call, recommendations, report, reimported>>

NextAnalyzer ==
    \/ AnalyzeCorrelations \/ AnalyzeBaseline \/ Recommend \/ ExportReport
    \/ Reimport \/ Compare

SpecAnalyzer == Init /\ [][NextAnalyzer]_vars

----------------------------------------------------------------------------
(* The capture of the integration test (tests/integration/                  *)
(* test_cross_layer.py): run_test on the main thread, the poll thread that  *)
(* eBPFMonitor.start creates, and the probes that fill the perf buffer.     *)
(* The probes stay attached until the process ends.  An event is held as    *)
(* its number in the order of emission.                                     *)

\* ebpf.start(): open_perf_buffer, self.running = True, the thread started
MonitorStart ==
    /\ test_pc = "start"
    /\ monitor_running' = TRUE
    /\ poll_pc' = "while"
    /\ test_pc' = "load"
    /\ UNCHANGED <<monitor_events, perf_buffer, emitted, captured, combined_file,
                   ebpf_file, outside_capture>>

\* a probe fires: submit_event puts one event in the perf buffer
KernelEmit ==
    /\ test_pc # "start"
    /\ emitted < MaxKernelEvents
    /\ emitted' = emitted + 1
    /\ perf_buffer' = Append(perf_buffer, emitted + 1)
    /\ UNCHANGED <<test_pc, poll_pc, monitor_running, monitor_events, captured,
                   combined_file, ebpf_file, outside_capture>>

\* poll_loop: while self.running
PollTest ==
    /\ poll_pc = "while"
    /\ poll_pc' = IF monitor_running THEN "polling" ELSE "finished"
    /\ UNCHANGED <<test_pc, monitor_running, monitor_events, perf_buffer, emitted,
                   captured, combined_file, ebpf_file, outside_capture>>

\* inside perf_buffer_poll: handle_event appends one event to self.events
PollDeliver ==
    /\ poll_pc = "polling"
    /\ perf_buffer # <<>>
    /\ monitor_events' = Append(monitor_events, Head(perf_buffer))
    /\ perf_buffer' = Tail(perf_buffer)
    /\ UNCHANGED <<test_pc, poll_pc, monitor_running, emitted, captured,
                   combined_file, ebpf_file, outside_capture>>

\* perf_buffer_poll(timeout=100) returns
PollReturn ==
    /\ poll_pc = "polling"
    /\ poll_pc' = "while"
    /\ UNCHANGED <<test_pc, monitor_running, monitor_events, perf_buffer, emitted,
                   captured, combined_file, ebpf_file, outside_capture>>

\* load_gen.run(num_requests) and the sleeps around it
LoadDone ==
    /\ test_pc = "load"
    /\ test_pc' = "stop"
    /\ UNCHANGED <<poll_pc, monitor_running, monitor_events, perf_buffer, emitted,
                   captured, combined_file, ebpf_file, outside_capture>>

\* ebpf.stop(): self.running = False
StopFlag ==
    /\ test_pc = "stop"
    /\ monitor_running' = FALSE
    /\ test_pc' = "join"
    /\ UNCHANGED <<poll_pc, monitor_events, perf_buffer, emitted, captured,
                   combined_file, ebpf_file, outside_capture>>

\* ebpf.stop(): self.thread.join(timeout=2) returns, the thread finished or
\* the two seconds over, and stop prints len(self.events)
StopJoin ==
    /\ test_pc = "join"
    /\ captured' = Some(Len(monitor_events))
    /\ test_pc' = "stopped"
    /\ UNCHANGED <<poll_pc, monitor_running, monitor_events, perf_buffer, emitted,
                   combined_file, ebpf_file, outside_capture>>

\* run_test: ebpf_events = ebpf.events, analyze_blindspots, and
\* json.dump(output, f) of test_output.json
DumpCombined ==
    /\ test_pc = "stopped"
    /\ combined_file' = Some(monitor_events)
    /\ test_pc' = "combined"
    /\ UNCHANGED <<poll_pc, monitor_running, monitor_events, perf_buffer, emitted,
                   captured, ebpf_file, outside_capture>>

\* run_test: json.dump(ebpf_events, f) of ebpf_events.json
DumpEvents ==
    /\ test_pc = "combined"
    /\ ebpf_file' = Some(monitor_events)
    /\ test_pc' = "done"
    /\ UNCHANGED <<poll_pc, monitor_running, monitor_events, perf_buffer, emitted,
                   captured, combined_file, outside_capture>>

NextCapture ==
    \/ MonitorStart \/ KernelEmit \/ PollTest \/ PollDeliver \/ PollReturn
    \/ LoadDone \/ StopFlag \/ StopJoin \/ DumpCombined \/ DumpEvents

SpecCapture == Init /\ [][NextCapture]_vars

----------------------------------------------------------------------------
(* The load generator (src/application/client.py): LoadGenerator.run with   *)
(* no duration, and the signal handler that __init__ installs.              *)

\* the outcomes of make_request
RequestResults == {"success", "timeout", "error"}

\* if num_requests and request_id >= num_requests: the test of the count
CountReached(asked, request_id) ==
    asked # None /\ asked[1] # 0 /\ request_id >= asked[1]

\* generator.run(num_requests=...): request_id = 0
RunClient ==
    /\ client_pc = "constructed"
    /\ num_requests' \in {None} \cup {Some(n) : n \in 0..MaxAsked}
    /\ last_request_id' = 0
    /\ client_pc' = "while"
    /\ UNCHANGED <<client_running, client_metrics, signalled, outside_client>>

\* while self.running
ClientTest ==
    /\ client_pc = "while"
    /\ client_pc' = IF client_running THEN "request" ELSE "returned"
    /\ UNCHANGED <<client_running, num_requests, last_request_id, client_metrics,
                   signalled, outside_client>>

\* request_id += 1; metric = self.make_request(request_id);
\* self.metrics.append(metric)
ClientRequest ==
    /\ client_pc = "request"
    /\ last_request_id < MaxIssued
    /\ last_request_id' = last_request_id + 1
    /\ \E result \in RequestResults :
          client_metrics' = Append(client_metrics,
                                   [request_id |-> last_request_id + 1,
                                    result |-> result])
    /\ client_pc' = "check"
    /\ UNCHANGED <<client_running, num_requests, signalled, outside_client>>

\* the stopping conditions: break on the count, never on the absent duration
ClientCheck ==
    /\ client_pc = "check"
    /\ client_pc' = IF CountReached(num_requests, last_request_id)
                    THEN "returned" ELSE "sleep"
    /\ UNCHANGED <<client_running, num_requests, last_request_id, client_metrics,
                   signalled, outside_client>>

\* time.sleep(self.interval_s)
ClientSleep ==
    /\ client_pc = "sleep"
    /\ client_pc' = "while"
    /\ UNCHANGED <<client_running, num_requests, last_request_id, client_metrics,
                   signalled, outside_client>>

\* SIGINT or SIGTERM: _signal_handler sets self.running = False
StopSignal ==
    /\ client_pc # "returned"
    /\ signalled = None
    /\ client_running' = FALSE
    /\ signalled' = Some([recorded |-> Len(client_metrics), at |-> client_pc])
    /\ UNCHANGED <<client_pc, num_requests, last_request_id, client_metrics,
                   outside_client>>

NextClient ==
    \/ RunClient \/ ClientTest \/ ClientRequest \/ ClientCheck \/ ClientSleep
    \/ StopSignal

SpecClient == Init /\ [][NextClient]_vars

----------------------------------------------------------------------------
(* Vocabulary of the properties *)

\* the requests of the last correlate call, by position
Requests == 1..Len(returned)

\* the request reports success
ReportsSuccess(m) == m.result = Some("success") \/ m.status_code = Some(HttpOk)

\* the expanded window of request m
WindowStart(m) == ToNs(m.start_time) - time_window_ns
WindowEnd(m) == ToNs(m.end_time) + time_window_ns

\* event e lies in the expanded window of request m
Inside(m, e) == WindowStart(m) <= e.timestamp_ns /\ e.timestamp_ns <= WindowEnd(m)

\* the events that occur in a list
Events(list) == {list[j] : j \in 1..Len(list)}

\* number of occurrences of event e in the list
Occurrences(list, e) == Cardinality({j \in 1..Len(list) : list[j] = e})

----------------------------------------------------------------------------
(* C1: correlate returns one CorrelatedEvent per request, in input order:   *)
(* the returned list is as long as the request list and its i-th entry      *)
(* carries the request_id of the i-th request.                              *)
C1_OnePerRequest ==
    calls > 0 =>
        /\ Len(returned) = Len(app_metrics)
        /\ \A i \in Requests : returned[i].request_id = app_metrics[i].request_id

\* two requests with different ids, one of them without any matched event
C1_Witness ==
    /\ calls > 0
    /\ Len(returned) = 2
    /\ returned[1].request_id # returned[2].request_id
    /\ returned[1].kernel_event_count = 0
    /\ returned[2].kernel_event_count > 0

C3_Idempotent == [][calls > 0 => returned' = returned]_vars

\* the second call on inputs for which the first flagged a request
C3_Witness ==
    /\ calls = 2
    /\ Len(returned) = 2
    /\ \E i \in Requests :
          returned[i].discrepancy_detected /\ returned[i].kernel_event_count > 0

----------------------------------------------------------------------------
(* Vocabulary of the classifier properties: the rules as conditions on the  *)
(* request m and on the kernel events ev attached to it                     *)

Retransmits(ev) == CountType(ev, "retransmit")
Connects(ev) == CountType(ev, "connect")
Closes(ev) == CountType(ev, "close")
Sends(ev) == CountType(ev, "send")
Recvs(ev) == CountType(ev, "recv")
SentBytes(ev) == SumBytes(ev, "send")
RecvBytes(ev) == SumBytes(ev, "recv")

RuleHolds(k, m, ev) ==
    CASE k = 1 -> Retransmits(ev) >= 1
      [] k = 2 -> Connects(ev) > 1
      [] k = 3 -> m.latency_ms < LowLatencyMs * 100 /\ Len(ev) > HighEventCount
      [] k = 4 -> SentBytes(ev) > AsymmetricBytes /\ RecvBytes(ev) = 0
      [] k = 5 -> RecvBytes(ev) > AsymmetricBytes /\ SentBytes(ev) = 0
      [] k = 6 -> m.latency_ms < CloseLatencyMs * 100 /\ Closes(ev) > CloseLimit
      [] k = 7 -> /\ Connects(ev) = 0
                  /\ SentBytes(ev) + RecvBytes(ev) > 0
                  /\ Len(ev) > ReuseEventCount
      [] k = 8 -> Sends(ev) > SyscallLimit \/ Recvs(ev) > SyscallLimit

RuleReason(k, m, ev) ==
    CASE k = 1 -> ReasonRetransmissions(Retransmits(ev))
      [] k = 2 -> ReasonConnectionAttempts(Connects(ev))
      [] k = 3 -> ReasonHiddenInefficiency(m.latency_ms, Len(ev))
      [] k = 4 -> ReasonNoResponse
      [] k = 5 -> ReasonNoPriorSend
      [] k = 6 -> ReasonCloseAttempts(m.latency_ms, Closes(ev))
      [] k = 7 -> ReasonConnectionReuse
      [] k = 8 -> ReasonExcessiveSyscalls(Sends(ev), Recvs(ev))

\* no rule before rule k holds
NoneBefore(k, m, ev) == \A j \in 1..(k - 1) : ~RuleHolds(j, m, ev)

----------------------------------------------------------------------------
(* C4: absence policy: a request for which zero kernel events match is      *)
(* never flagged, whatever its result or status code: discrepancy_detected  *)
(* is false and discrepancy_reason is None.                                 *)
C4_AbsenceNotFlagged ==
    calls > 0 =>
        \A i \in Requests :
            Len(returned[i].kernel_events) = 0 =>
                /\ returned[i].discrepancy_detected = FALSE
                /\ returned[i].discrepancy_reason = None

\* a request reporting success with status 200, a non-empty kernel stream
\* and no event in its window
C4_Witness ==
    /\ calls > 0
    /\ Len(ebpf_events) > 0
    /\ \E i \in Requests :
          /\ app_metrics[i].result = Some("success")
          /\ app_metrics[i].status_code = Some(HttpOk)
          /\ Len(returned[i].kernel_events) = 0
          /\ returned[i].discrepancy_detected = FALSE

(* C5: every request that reports success and has at least one matched      *)
(* retransmit event is flagged with the hidden-retransmissions reason, also *)
(* when the retransmit event is its only matched event.                     *)
C5_RetransmitFlagged ==
    calls > 0 =>
        \A i \in Requests :
            LET ev == returned[i].kernel_events
            IN  (ReportsSuccess(app_metrics[i]) /\ Retransmits(ev) >= 1) =>
                    /\ returned[i].discrepancy_detected = TRUE
                    /\ returned[i].discrepancy_reason =
                           Some(ReasonRetransmissions(Retransmits(ev)))
                    /\ \E t \in 1..Len(returned[i].discrepancy_reason[1]) :
                           returned[i].discrepancy_reason[1][t] = "retransmissions"

\* a success request whose only matched event is one retransmit
C5_Witness ==
    /\ calls > 0
    /\ \E i \in Requests :
          /\ ReportsSuccess(app_metrics[i])
          /\ Len(returned[i].kernel_events) = 1
          /\ returned[i].kernel_events[1].event_type = "retransmit"
          /\ returned[i].discrepancy_detected = TRUE

(* C6: every request that reports success, whose matched send events total  *)
(* more than 1000 bytes while its matched recv bytes total 0, is flagged,   *)
(* with the sent-without-response reason when no earlier rule holds; and    *)
(* likewise recv bytes > 1000 with send bytes 0, with the                   *)
(* received-without-prior-send reason.                                      *)
C6_AsymmetricFlagged ==
    calls > 0 =>
        \A i \in Requests :
            LET m == app_metrics[i]
                ev == returned[i].kernel_events
            IN  /\ (ReportsSuccess(m) /\ SentBytes(ev) > 1000 /\ RecvBytes(ev) = 0) =>
                       /\ returned[i].discrepancy_detected = TRUE
                       /\ NoneBefore(4, m, ev) =>
                              returned[i].discrepancy_reason = Some(ReasonNoResponse)
                /\ (ReportsSuccess(m) /\ RecvBytes(ev) > 1000 /\ SentBytes(ev) = 0) =>
                       /\ returned[i].discrepancy_detected = TRUE
                       /\ NoneBefore(4, m, ev) =>
                              returned[i].discrepancy_reason = Some(ReasonNoPriorSend)

\* one send event of more than 1000 bytes, nothing received, flagged as
\* sent without response
C6_Witness ==
    /\ calls > 0
    /\ \E i \in Requests :
          /\ ReportsSuccess(app_metrics[i])
          /\ SentBytes(returned[i].kernel_events) > 1000
          /\ RecvBytes(returned[i].kernel_events) = 0
          /\ returned[i].discrepancy_reason = Some(ReasonNoResponse)

(* C7 as claimed: every request that reports success and has matched        *)
(* events, none of them a send or a recv event, is flagged.                 *)
C7_NoTransferFlagged ==
    calls > 0 =>
        \A i \in Requests :
            LET ev == returned[i].kernel_events
            IN  (ReportsSuccess(app_metrics[i]) /\ Len(ev) >= 1
                 /\ Sends(ev) = 0 /\ Recvs(ev) = 0) =>
                    returned[i].discrepancy_detected = TRUE

(* C7 amended: there is no rule for missing transfer evidence. A request    *)
(* that reports success and whose matched events carry no send and no recv  *)
(* bytes (no send/recv event, or only zero-byte ones) is flagged exactly    *)
(* when another rule holds: a retransmit, more than one connect, latency    *)
(* below 10 ms with more than 50 events, latency below 20 ms with more than *)
(* 2 closes, or more than 10 send or more than 10 recv events.              *)
C7_NoTransferRule ==
    calls > 0 =>
        \A i \in Requests :
            LET m == app_metrics[i]
                ev == returned[i].kernel_events
            IN  (ReportsSuccess(m) /\ Len(ev) >= 1
                 /\ SentBytes(ev) = 0 /\ RecvBytes(ev) = 0) =>
                    (returned[i].discrepancy_detected
                        <=> \E k \in {1, 2, 3, 6, 8} : RuleHolds(k, m, ev))

\* a success request with matched events, none a send or recv, not flagged
C7_Witness ==
    /\ calls > 0
    /\ \E i \in Requests :
          /\ ReportsSuccess(app_metrics[i])
          /\ Len(returned[i].kernel_events) >= 3
          /\ Sends(returned[i].kernel_events) = 0
          /\ Recvs(returned[i].kernel_events) = 0
          /\ returned[i].discrepancy_detected = FALSE

(* C8: the classifier is a first-match decision list: a CorrelatedEvent has *)
(* a reason if and only if it is flagged, and the reason of a flagged one   *)
(* is that of the earliest rule that holds, in the order retransmissions,   *)
(* multiple connects, hidden inefficiency, sent without response, received  *)
(* without send, close churn, connection reuse, excessive syscalls.         *)
C8_FirstMatch ==
    calls > 0 =>
        \A i \in Requests :
            LET m == app_metrics[i]
                ev == returned[i].kernel_events
            IN  /\ (returned[i].discrepancy_reason # None)
                       <=> (returned[i].discrepancy_detected = TRUE)
                /\ returned[i].discrepancy_detected =>
                       \E k \in 1..8 :
                           /\ RuleHolds(k, m, ev)
                           /\ NoneBefore(k, m, ev)
                           /\ returned[i].discrepancy_reason = Some(RuleReason(k, m, ev))

\* retransmissions, multiple connects and excessive syscalls hold together
\* and the reason is the retransmissions one
C8_Witness ==
    /\ calls > 0
    /\ \E i \in Requests :
          LET m == app_metrics[i]
              ev == returned[i].kernel_events
          IN  /\ RuleHolds(1, m, ev) /\ RuleHolds(2, m, ev) /\ RuleHolds(8, m, ev)
              /\ returned[i].discrepancy_reason = Some(RuleReason(1, m, ev))

(* C9: a request that does not report success (result is not 'success' and  *)
(* status_code is not 200) is never flagged, whatever kernel events match.  *)
C9_FailureNotFlagged ==
    calls > 0 =>
        \A i \in Requests :
            ~ReportsSuccess(app_metrics[i]) =>
                returned[i].discrepancy_detected = FALSE

\* a failed request with a matched retransmit, two connects and more than
\* 1000 bytes sent without a response
C9_Witness ==
    /\ calls > 0
    /\ \E i \in Requests :
          LET m == app_metrics[i]
              ev == returned[i].kernel_events
          IN  /\ ~ReportsSuccess(m)
              /\ m.status_code # None
              /\ RuleHolds(1, m, ev) /\ RuleHolds(2, m, ev) /\ RuleHolds(4, m, ev)
              /\ returned[i].discrepancy_detected = FALSE

(* C10: every request that reports success and has more than one matched    *)
(* connect event is flagged, with the connection-attempts reason when no    *)
(* earlier rule holds; with exactly one matched connect event the           *)
(* connection-attempts reason is not given.                                 *)
C10_MultipleConnects ==
    calls > 0 =>
        \A i \in Requests :
            LET m == app_metrics[i]
                ev == returned[i].kernel_events
            IN  /\ (ReportsSuccess(m) /\ Connects(ev) > 1) =>
                       /\ returned[i].discrepancy_detected = TRUE
                       /\ NoneBefore(2, m, ev) =>
                              returned[i].discrepancy_reason =
                                  Some(ReasonConnectionAttempts(Connects(ev)))
                /\ (ReportsSuccess(m) /\ Connects(ev) = 1) =>
                       returned[i].discrepancy_reason #
                           Some(ReasonConnectionAttempts(Connects(ev)))

\* two connects and no retransmit: flagged as connection attempts
C10_Witness ==
    /\ calls > 0
    /\ \E i \in Requests :
          /\ ReportsSuccess(app_metrics[i])
          /\ Connects(returned[i].kernel_events) = 2
          /\ Retransmits(returned[i].kernel_events) = 0
          /\ returned[i].discrepancy_reason = Some(ReasonConnectionAttempts(2))

(* C11: every request that reports success with latency_ms below 10 and     *)
(* more than 50 matched kernel events is flagged, with the                  *)
(* hidden-inefficiency reason when no earlier rule holds; at latency        *)
(* exactly 10, or with exactly 50 matched events, the hidden-inefficiency   *)
(* reason is not given.                                                     *)
C11_HiddenInefficiency ==
    calls > 0 =>
        \A i \in Requests :
            LET m == app_metrics[i]
                ev == returned[i].kernel_events
            IN  /\ (/\ ReportsSuccess(m)
                    /\ m.latency_ms < LowLatencyMs * 100
                    /\ Len(ev) > HighEventCount) =>
                       /\ returned[i].discrepancy_detected = TRUE
                       /\ NoneBefore(3, m, ev) =>
                              returned[i].discrepancy_reason =
                                  Some(ReasonHiddenInefficiency(m.latency_ms, Len(ev)))
                /\ (m.latency_ms = LowLatencyMs * 100 \/ Len(ev) = HighEventCount) =>
                       returned[i].discrepancy_reason #
                           Some(ReasonHiddenInefficiency(m.latency_ms, Len(ev)))

\* 9.99 ms and 51 events without retransmit or second connect: flagged as
\* hidden inefficiency
C11_Witness ==
    /\ calls > 0
    /\ \E i \in Requests :
          LET m == app_metrics[i]
              ev == returned[i].kernel_events
          IN  /\ ReportsSuccess(m)
              /\ m.latency_ms = 999
              /\ Len(ev) = HighEventCount + 1
              /\ NoneBefore(3, m, ev)
              /\ returned[i].discrepancy_reason =
                     Some(ReasonHiddenInefficiency(999, HighEventCount + 1))

(* C12: every request that reports success with latency_ms below 20 and     *)
(* more than 2 matched close events is flagged, with the close-attempts     *)
(* reason when no earlier rule holds.                                       *)
C12_CloseChurn ==
    calls > 0 =>
        \A i \in Requests :
            LET m == app_metrics[i]
                ev == returned[i].kernel_events
            IN  (/\ ReportsSuccess(m)
                 /\ m.latency_ms < CloseLatencyMs * 100
                 /\ Closes(ev) > CloseLimit) =>
                    /\ returned[i].discrepancy_detected = TRUE
                    /\ NoneBefore(6, m, ev) =>
                           returned[i].discrepancy_reason =
                               Some(ReasonCloseAttempts(m.latency_ms, Closes(ev)))

\* 19.99 ms and three closes, no earlier rule: flagged as close attempts
C12_Witness ==
    /\ calls > 0
    /\ \E i \in Requests :
          LET m == app_metrics[i]
              ev == returned[i].kernel_events
          IN  /\ ReportsSuccess(m)
              /\ m.latency_ms = 1999
              /\ Closes(ev) = CloseLimit + 1
              /\ NoneBefore(6, m, ev)
              /\ returned[i].discrepancy_reason =
                     Some(ReasonCloseAttempts(1999, CloseLimit + 1))

(* C13: every request that reports success with no matched connect event,   *)
(* a nonzero total of matched send and recv bytes and more than 20 matched  *)
(* events is flagged, with the connection-reuse reason when no earlier rule *)
(* holds.                                                                   *)
C13_ConnectionReuse ==
    calls > 0 =>
        \A i \in Requests :
            LET m == app_metrics[i]
                ev == returned[i].kernel_events
            IN  (/\ ReportsSuccess(m)
                 /\ Connects(ev) = 0
                 /\ SentBytes(ev) + RecvBytes(ev) # 0
                 /\ Len(ev) > ReuseEventCount) =>
                    /\ returned[i].discrepancy_detected = TRUE
                    /\ NoneBefore(7, m, ev) =>
                           returned[i].discrepancy_reason = Some(ReasonConnectionReuse)

\* 21 events, none a connect, 100 bytes sent: flagged as connection reuse
C13_Witness ==
    /\ calls > 0
    /\ \E i \in Requests :
          LET m == app_metrics[i]
              ev == returned[i].kernel_events
          IN  /\ ReportsSuccess(m)
              /\ Connects(ev) = 0
              /\ Len(ev) = ReuseEventCount + 1
              /\ SentBytes(ev) = 100
              /\ returned[i].discrepancy_reason = Some(ReasonConnectionReuse)

(* C14: every request that reports success with more than 10 matched send   *)
(* events or more than 10 matched recv events is flagged, with the          *)
(* excessive-syscalls reason when no earlier rule holds; a request that     *)
(* reports success with at least one matched event for which none of the    *)
(* eight rules holds is not flagged and has no reason.                      *)
C14_ExcessiveSyscalls ==
    calls > 0 =>
        \A i \in Requests :
            LET m == app_metrics[i]
                ev == returned[i].kernel_events
            IN  /\ (/\ ReportsSuccess(m)
                    /\ (Sends(ev) > SyscallLimit \/ Recvs(ev) > SyscallLimit)) =>
                       /\ returned[i].discrepancy_detected = TRUE
                       /\ NoneBefore(8, m, ev) =>
                              returned[i].discrepancy_reason =
                                  Some(ReasonExcessiveSyscalls(Sends(ev), Recvs(ev)))
                /\ (/\ ReportsSuccess(m)
                    /\ Len(ev) >= 1
                    /\ \A k \in 1..8 : ~RuleHolds(k, m, ev)) =>
                       /\ returned[i].discrepancy_detected = FALSE
                       /\ returned[i].discrepancy_reason = None

\* eleven recv events and no send are flagged as excessive syscalls
C14_Witness ==
    /\ calls > 0
    /\ \E i \in Requests :
          LET m == app_metrics[i]
              ev == returned[i].kernel_events
          IN  /\ ReportsSuccess(m)
              /\ Sends(ev) = 0
              /\ Recvs(ev) = SyscallLimit + 1
              /\ returned[i].discrepancy_reason =
                     Some(ReasonExcessiveSyscalls(0, SyscallLimit + 1))

----------------------------------------------------------------------------
(* Vocabulary of the analyzer properties *)

\* the latency samples the statistics were last computed from
Samples == Latencies(analyzer_metrics)

\* the percentile P of the statistics
StatPercentile(P) ==
    CASE P = 50 -> analyzer_stats.latency_p50
      [] P = 90 -> analyzer_stats.latency_p90
      [] P = 95 -> analyzer_stats.latency_p95
      [] P = 99 -> analyzer_stats.latency_p99

\* the index floor(P * N / 100), clamped to N - 1
NearestRank(P, N) == IF (P * N) \div 100 > N - 1 THEN N - 1 ELSE (P * N) \div 100

\* v is the sample at index k (from 0) of the samples in ascending order
IsSampleAt(v, k) ==
    /\ \E i \in 1..Len(Samples) : Samples[i] = v
    /\ Cardinality({i \in 1..Len(Samples) : Samples[i] < v}) <= k
    /\ k < Cardinality({i \in 1..Len(Samples) : Samples[i] <= v})

\* the statistics apart from latency_stddev, which is not held as a number
Numbers(s) == [f \in DOMAIN s \ {"latency_stddev"} |-> s[f]]

\* the statistics a new analyzer computes from the data of one call
FreshStats(call) ==
    IF call[1] = "correlations"
    THEN AnalyzeCorrelationsOp(<<>>, AggregatedStatistics, call[2])[2]
    ELSE AnalyzeBaselineOp(<<>>, AggregatedStatistics, call[2])[2]

\* the summary values of the round trip: counts, latency statistics, byte
\* totals, throughput and kernel-event statistics
SummaryFields ==
    { "total_requests", "successful_requests", "failed_requests",
      "latency_avg", "latency_median", "latency_min", "latency_max",
      "latency_p50", "latency_p90", "latency_p95", "latency_p99",
      "bytes_sent_total", "bytes_received_total",
      "throughput_avg_mbps", "throughput_total_mb",
      "kernel_events_avg", "kernel_events_total", "bytes_per_event_avg" }

SummaryValues(s) == [f \in SummaryFields |-> s[f]]

(* C15: with N >= 1 latency samples, each of the percentiles 50, 90, 95 and *)
(* 99 of the statistics is the sample at index min(floor(P * N / 100),      *)
(* N - 1) of the samples in ascending order, and so one of the samples.     *)
C15_NearestRank ==
    Len(Samples) >= 1 =>
        \A P \in {50, 90, 95, 99} :
            /\ StatPercentile(P)[2] = 1
            /\ IsSampleAt(StatPercentile(P)[1], NearestRank(P, Len(Samples)))

\* twenty samples given slowest first, 5 ms to 100 ms: P50 is the eleventh,
\* P90 the nineteenth and P95 the twentieth
C15_Witness ==
    /\ Len(Samples) = 20
    /\ Samples[1] = 10000 /\ Samples[20] = 500
    /\ analyzer_stats.latency_p50 = FracOfInt(5500)
    /\ analyzer_stats.latency_p90 = FracOfInt(9500)
    /\ analyzer_stats.latency_p95 = FracOfInt(10000)

(* C16: after any analysis pass, in correlation mode or in baseline mode,   *)
(* over a non-empty set of latency samples the statistics satisfy           *)
(* latency_min <= p50 <= p90 <= p95 <= p99 <= latency_max.                  *)
C16_PercentileOrder ==
    (passes > 0 /\ Len(Samples) >= 1) =>
        /\ FracLeq(analyzer_stats.latency_min, analyzer_stats.latency_p50)
        /\ FracLeq(analyzer_stats.latency_p50, analyzer_stats.latency_p90)
        /\ FracLeq(analyzer_stats.latency_p90, analyzer_stats.latency_p95)
        /\ FracLeq(analyzer_stats.latency_p95, analyzer_stats.latency_p99)
        /\ FracLeq(analyzer_stats.latency_p99, analyzer_stats.latency_max)

\* a baseline pass after a correlation pass, over samples not in ascending
\* order, with the minimum, P50, P90 and the maximum all different
C16_Witness ==
    /\ passes = 2
    /\ last_call[1] = "baseline"
    /\ \E i \in 1..(Len(Samples) - 1) : Samples[i] > Samples[i + 1]
    /\ FracLess(analyzer_stats.latency_min, analyzer_stats.latency_p50)
    /\ FracLess(analyzer_stats.latency_p50, analyzer_stats.latency_p90)
    /\ FracLess(analyzer_stats.latency_p90, analyzer_stats.latency_max)

(* C17: after analyze_correlations on a new analyzer the average throughput *)
(* is the mean of (bytes_sent + bytes_recv) * 8 / (latency_ms / 1000), in   *)
(* Mbps, over exactly the requests of the call with latency_ms > 0:         *)
(* requests with zero latency are left out and every request with positive  *)
(* latency is in it.                                                        *)
C17_ThroughputMean ==
    (passes = 1 /\ last_call[1] = "correlations") =>
        LET timed == SelectSeq(last_call[2].correlations,
                               LAMBDA c : c.app_latency_ms > 0)
            rates == [i \in 1..Len(timed) |->
                         ThroughputBps(timed[i].kernel_bytes_sent + timed[i].kernel_bytes_recv,
                                       timed[i].app_latency_ms)]
        IN  Len(timed) > 0 =>
                analyzer_stats.throughput_avg_mbps =
                    FracDivInt(FracMean(rates), BitsPerMegabit)

(* C18: generate_recommendations never returns an empty list.               *)
C18_NeverEmpty == recommendations # None => recommendations[1] # <<>>

(* C19: the detailed_metrics of an exported report, analysed again by       *)
(* analyze_correlations, give the summary values of the report: counts,     *)
(* latency statistics, byte totals, throughput and kernel-event statistics. *)
C19_RoundTrip ==
    reimported # None =>
        SummaryValues(reimported[1]) = SummaryValues(report[1].summary)

(* C20: after any sequence of analyze_correlations and analyze_baseline     *)
(* calls on one analyzer the statistics are those a new analyzer computes   *)
(* from the data of the last call alone.                                    *)
C20_RecomputedFromScratch ==
    passes > 0 => Numbers(analyzer_stats) = Numbers(FreshStats(last_call))

----------------------------------------------------------------------------
(* C21: malformed records *)

WellFormedRequest(m) == RequestFields \subseteq DOMAIN m
WellFormedEvent(e) == EventFields \subseteq DOMAIN e

Correlated(request_id) ==
    \E j \in 1..Len(returned) : returned[j].request_id = request_id

\* C21: a malformed kernel event or request record never aborts correlate:
\* once correlate has been called on the loaded streams, no exception was
\* raised and every well-formed request has its CorrelatedEvent in the list
\* the call returned.
C21_MalformedSkipped ==
    (loaded /\ (calls > 0 \/ raised # None)) =>
        /\ raised = None
        /\ \A i \in 1..Len(app_metrics) :
               WellFormedRequest(app_metrics[i]) =>
                   Correlated(app_metrics[i].request_id)

----------------------------------------------------------------------------
(* C22, C23: empty input and the comparison with the baseline *)

\* every analysis pass so far was given zero records
OnlyEmptyPasses == passes > 0 /\ analyzer_metrics = <<>>

\* the averages, percentiles and rates taken over the requests
RequestRatios ==
    { "latency_avg", "latency_median", "latency_p50", "latency_p90",
      "latency_p95", "latency_p99", "throughput_avg_mbps", "kernel_events_avg",
      "error_rate_pct", "blind_spots_pct" }

\* the ratios of a comparison are 0 where the baseline denominator is 0
ZeroDenominatorsGiveZero ==
    comparison # None =>
        /\ comparison[1].baseline.latency_avg = Zero
              => comparison[1].result.latency_improvement_pct = Zero
        /\ comparison[1].baseline.failed_requests = 0
              => comparison[1].result.error_detection_improvement_pct = Zero

\* C22 as stated: after passes over zero records, generate_recommendations
\* and compare_with_baseline raise no fault and every average, percentile and
\* rate over the requests, the success rate included, is reported as 0.
C22_EmptyInputAllZero ==
    OnlyEmptyPasses =>
        /\ fault = None
        /\ \A f \in RequestRatios \cup {"success_rate_pct"} : analyzer_stats[f] = Zero
        /\ ZeroDenominatorsGiveZero

\* C22, amended: after passes over zero records, generate_recommendations and
\* compare_with_baseline raise no fault, every average, percentile, error rate
\* and blind-spot rate is reported as 0, the ratios of the comparison are 0
\* where the baseline denominator is 0, and the success rate is 100.
C22_EmptyInputTotal ==
    OnlyEmptyPasses =>
        /\ fault = None
        /\ \A f \in RequestRatios : analyzer_stats[f] = Zero
        /\ analyzer_stats.success_rate_pct = FracOfInt(100)
        /\ ZeroDenominatorsGiveZero

C22_Witness ==
    /\ OnlyEmptyPasses
    /\ recommendations # None
    /\ comparison # None
    /\ comparison[1].baseline.total_requests = 0

\* C23: compare_with_baseline returns the signed percentages
\* (baseline.latency_avg - cross.latency_avg) / baseline.latency_avg * 100 and
\* ((cross.failed_requests + cross.blind_spots_count) - baseline.failed_requests)
\* / baseline.failed_requests * 100, and 0 for a ratio whose baseline
\* denominator is 0.
C23_SignedPercentages ==
    comparison # None =>
        LET b == comparison[1].baseline
            c == comparison[1].result
            lat == c.latency_improvement_pct
            err == c.error_detection_improvement_pct
        IN  /\ IF b.latency_avg = Zero THEN lat = Zero
               ELSE lat[1] * b.latency_avg[1] * analyzer_stats.latency_avg[2]
                    = 100 * lat[2]
                      * (b.latency_avg[1] * analyzer_stats.latency_avg[2]
                         - analyzer_stats.latency_avg[1] * b.latency_avg[2])
            /\ IF b.failed_requests = 0 THEN err = Zero
               ELSE err[1] * b.failed_requests
                    = 100 * err[2]
                      * ((analyzer_stats.failed_requests
                          + analyzer_stats.blind_spots_count) - b.failed_requests)

C23_Witness ==
    /\ comparison # None
    /\ comparison[1].result.latency_improvement_pct[1] < 0
    /\ comparison[1].result.error_detection_improvement_pct[1] > 0
    /\ analyzer_stats.blind_spots_count > 0

----------------------------------------------------------------------------
(* C24: order and extent of the matched events *)

\* the timestamps of a list never decrease along the list
Ascending(list) ==
    \A j \in 1..(Len(list) - 1) : list[j].timestamp_ns <= list[j + 1].timestamp_ns

\* C24 as stated: the matched kernel events of every CorrelatedEvent are in
\* non-decreasing timestamp_ns order and are fewer than the events of the
\* stream (a proper subset of it).
C24_OrderedProperSubset ==
    calls > 0 =>
        \A i \in Requests :
            /\ Ascending(returned[i].kernel_events)
            /\ Len(returned[i].kernel_events) < Len(ebpf_events)

\* C24, amended: the matched kernel events of every CorrelatedEvent are the
\* events of the stream inside the request's window, in the order of the
\* stream: a sub-sequence of the stream that may be the whole stream, and in
\* non-decreasing timestamp_ns order whenever the stream is.
C24_StreamOrder ==
    calls > 0 =>
        \A i \in Requests :
            LET ev == returned[i].kernel_events
            IN  /\ ev = SelectSeq(ebpf_events, LAMBDA e : Inside(app_metrics[i], e))
                /\ Len(ev) <= Len(ebpf_events)
                /\ Ascending(ebpf_events) => Ascending(ev)

\* the whole stream is matched, and it is out of timestamp order
C24_Witness ==
    /\ calls > 0
    /\ \E i \in Requests :
          /\ returned[i].kernel_events = ebpf_events
          /\ Len(ebpf_events) = 2
          /\ ebpf_events[1].timestamp_ns > ebpf_events[2].timestamp_ns

----------------------------------------------------------------------------
(* C25: the kernel statistics of a CorrelatedEvent *)

\* the events of one type, in list order
OfType(ev, t) == SelectSeq(ev, LAMBDA e : e.event_type = t)

RECURSIVE TotalBytes(_)
\* the bytes of all events of a list
TotalBytes(ev) ==
    IF ev = <<>> THEN 0 ELSE ev[Len(ev)].bytes + TotalBytes(SubSeq(ev, 1, Len(ev) - 1))

RECURSIVE SumOfCounts(_)
\* the sum of the values of a dict of counts
SumOfCounts(counts) ==
    IF DOMAIN counts = {} THEN 0
    ELSE LET t == CHOOSE x \in DOMAIN counts : TRUE
         IN  counts[t] + SumOfCounts([x \in DOMAIN counts \ {t} |-> counts[x]])

\* C25: in every CorrelatedEvent kernel_total_bytes_sent is the sum of bytes
\* over its matched send events only and kernel_total_bytes_recv the sum over
\* its matched recv events only, kernel_connection_events is the number of
\* its matched connect events, and kernel_event_count is the number of its
\* matched events, which is the sum of the per-type counts.
C25_KernelStatistics ==
    calls > 0 =>
        \A i \in Requests :
            LET c == returned[i]
                ev == c.kernel_events
            IN  /\ c.kernel_total_bytes_sent = TotalBytes(OfType(ev, "send"))
                /\ c.kernel_total_bytes_recv = TotalBytes(OfType(ev, "recv"))
                /\ c.kernel_connection_events = Len(OfType(ev, "connect"))
                /\ c.kernel_event_count = Len(ev)
                /\ c.kernel_event_count
                      = SumOfCounts(AnalyzeKernelEvents(ev).event_types)

\* a matched event that is neither send nor recv carries bytes, next to a
\* matched send
C25_Witness ==
    /\ calls > 0
    /\ \E i \in Requests :
          /\ \E j \in 1..Len(returned[i].kernel_events) :
                /\ returned[i].kernel_events[j].event_type = "retransmit"
                /\ returned[i].kernel_events[j].bytes > 0
          /\ returned[i].kernel_total_bytes_sent > 0

----------------------------------------------------------------------------
(* C27, C28, C29: the export of a session *)

\* the requests and the list of the most recent correlate call
LastMetrics == IF history = <<>> THEN <<>> ELSE history[Len(history)].app_metrics
LastReturned == IF history = <<>> THEN <<>> ELSE history[Len(history)].returned

\* the positions of the flagged CorrelatedEvents of the most recent call
Flagged == {i \in 1..Len(LastReturned) : LastReturned[i].discrepancy_detected}

\* the rule that fired for the i-th request of the most recent call
Fired(i) ==
    CHOOSE k \in 1..8 :
        /\ RuleHolds(k, LastMetrics[i], LastReturned[i].kernel_events)
        /\ NoneBefore(k, LastMetrics[i], LastReturned[i].kernel_events)

\* the category that belongs to each rule
RuleCategory(k) ==
    CASE k = 1 -> "Hidden TCP retransmissions"
      [] k = 2 -> "Multiple connection attempts masked"
      [] k = 3 -> "Excessive kernel events for fast operation"
      [] k = 4 -> "Asymmetric data transfer"
      [] k = 5 -> "Protocol-level anomalies"
      [] k = 6 -> "Hidden connection issues"
      [] k = 7 -> "Connection reuse masking problems"
      [] k = 8 -> "Inefficient kernel interactions"

\* the count blind_spot_types gives for a category, 0 if it is absent
CountOf(types, category) ==
    IF \E j \in 1..Len(types) : types[j][1] = category
    THEN (CHOOSE item \in {types[j] : j \in 1..Len(types)} : item[1] = category)[2]
    ELSE 0

\* C27: every flagged CorrelatedEvent is counted in exactly one category of
\* blind_spot_types, the one of the rule that fired: each category holds as
\* many events as that rule flagged, the counts add up to
\* blind_spots_detected, and 'Other kernel-visible issues' does not occur.
C27_OneCategoryEach ==
    exported # None =>
        LET types == exported[1].data.blind_spot_types
        IN  /\ \A j, k \in 1..Len(types) : types[j][1] = types[k][1] => j = k
            /\ \A j \in 1..Len(types) :
                  /\ types[j][1] \in {RuleCategory(k) : k \in 1..8}
                  /\ types[j][2] > 0
            /\ \A k \in 1..8 :
                  CountOf(types, RuleCategory(k))
                      = Cardinality({i \in Flagged : Fired(i) = k})
            /\ Sum([j \in 1..Len(types) |-> types[j][2]])
                  = exported[1].data.blind_spots_detected
            /\ CountOf(types, "Other kernel-visible issues") = 0

\* all eight rules have fired in one call
C27_Witness ==
    /\ exported # None
    /\ {Fired(i) : i \in Flagged} = 1..8
    /\ Len(exported[1].data.blind_spot_types) = 8

\* C28: get_blind_spots and export_correlations describe the most recent
\* correlate call only: total_requests is the number of requests of that
\* call and blind_spots_detected the number of its flagged CorrelatedEvents,
\* between 0 and total_requests, both 0 before the first call; and a list
\* that an earlier call returned is as it was when it was returned.
C28_MostRecentCall ==
    /\ exported # None =>
          /\ exported[1].data.total_requests = Len(LastMetrics)
          /\ exported[1].data.blind_spots_detected = Cardinality(Flagged)
          /\ exported[1].data.blind_spots_detected <= exported[1].data.total_requests
          /\ exported[1].blind_spots
                = SelectSeq(LastReturned, LAMBDA c : c.discrepancy_detected)
          /\ history = <<>> =>
                /\ exported[1].data.total_requests = 0
                /\ exported[1].data.blind_spots_detected = 0
    /\ Len(held) = Len(history)
    /\ \A j \in 1..Len(held) : held[j] = history[j].returned

\* two calls with different numbers of requests and of blind spots, then
\* the export
C28_Witness ==
    /\ exported # None
    /\ Len(history) = 2
    /\ Len(history[1].app_metrics) > Len(history[2].app_metrics)
    /\ Len(held[1]) > Len(held[2])
    /\ exported[1].data.blind_spots_detected > 0
    /\ exported[1].data.blind_spots_detected
          < Cardinality({i \in 1..Len(held[1]) : held[1][i].discrepancy_detected})

\* C29: when analyze_correlations runs on the dict that export_correlations
\* wrote, successful_requests + failed_requests is total_requests,
\* failed_requests is the number of source requests that did not report
\* success and timeout_count the number of source requests whose result
\* was timeout.
C29_FailuresCarried ==
    analyzed # None =>
        /\ analyzed[1].successful_requests + analyzed[1].failed_requests
              = analyzed[1].total_requests
        /\ analyzed[1].failed_requests
              = Cardinality({i \in 1..Len(LastMetrics) :
                                ~ReportsSuccess(LastMetrics[i])})
        /\ analyzed[1].timeout_count
              = Cardinality({i \in 1..Len(LastMetrics) :
                                LastMetrics[i].result = Some("timeout")})

----------------------------------------------------------------------------
(* C26: the capture thread after stop *)

\* eBPFMonitor.stop() has returned
StopReturned == test_pc \in {"stopped", "combined", "done"}

\* C26: once eBPFMonitor.stop() has returned the poll thread appends no
\* further event: the events list is as long as stop() found it, and the
\* lists that run_test serialises afterwards are that same list.
C26_QuietAfterStop ==
    StopReturned =>
        /\ Len(monitor_events) = captured[1]
        /\ combined_file # None => combined_file[1] = monitor_events
        /\ ebpf_file # None => ebpf_file[1] = combined_file[1]

----------------------------------------------------------------------------
(* C30: the load generator *)

\* C30: run(num_requests = n) that no stop signal interrupts never records
\* more than n requests and, once returned, has recorded exactly the
\* requests 1..n in order; and after a stop signal at most the request in
\* progress is still recorded.
C30_ExactlyN ==
    /\ (num_requests # None /\ signalled = None) =>
          /\ Len(client_metrics) <= num_requests[1]
          /\ \A i \in 1..Len(client_metrics) : client_metrics[i].request_id = i
          /\ client_pc = "returned" => Len(client_metrics) = num_requests[1]
    /\ signalled # None =>
          Len(client_metrics) <= signalled[1].recorded
                                 + (IF signalled[1].at = "request" THEN 1 ELSE 0)

====
